---- MODULE Spec2Model ----
(***************************************************************************)
(* Galaxy Watch local data sync server: the device registry, the record    *)
(* store, the ingestion pipeline, the sync cursor protocol and the session *)
(* tracker, as implemented by the express routes over the SQLite tables.   *)
(*                                                                         *)
(* Time is counted in minutes (the code counts milliseconds): every        *)
(* duration the code uses is a whole number of minutes, and the code only  *)
(* compares and subtracts timestamps.                                      *)
(***************************************************************************)
EXTENDS Integers, Sequences, FiniteSets, TLC

VARIABLES now, devices, health_data, sync_sessions, completing, last,
          device_settings, ingestions, wss_clients, clients, activeConnections,
          pager

\* the settings table, the ingestions in flight, the websocket state and what
\* a paging client has gathered: no
\* handler of the sync and ingestion routes, run from start to end, writes them
other_vars == <<device_settings, ingestions, wss_clients, clients, activeConnections,
                pager>>

vars == <<now, devices, health_data, sync_sessions, completing, last, other_vars>>

(***************************************************************************)
(* Program constants (config.js, validation.js)                            *)
(***************************************************************************)
MaxRecordAge == 129600
GracePeriod == 5
MaxBatchSize == 1000
HeartRateMin == 30
HeartRateMax == 220
StepsMin == 0
StepsMax == 100000

SupportedTypes ==
    {"heart_rate", "steps", "sleep", "activity", "workout", "blood_pressure",
     "blood_oxygen", "body_temperature", "gps_route", "calories_burned",
     "distance", "floors_climbed"}

DeviceTypes == {"wearos", "ios"}

IosDeviceId == "ios_device_001"

(***************************************************************************)
(* Bounds of the model                                                     *)
(***************************************************************************)
StartNow == 200000
MaxTicks == 1
MaxRows == 2
MaxBatch == 2
MaxSessions == 2
MaxPending == 2

MaxPartialBatch == 3
MaxNow == StartNow + MaxTicks

(***************************************************************************)
(* JavaScript values as they arrive in a request: a number, undefined, or  *)
(* a string that is not a number.                                          *)
(***************************************************************************)
JsNum(n) == [kind |-> "number", n |-> n]
JsUndef == [kind |-> "undefined", n |-> 0]
JsText == [kind |-> "string", n |-> 0]
\* an ISO 8601 string: the text of the instant n, read by new Date() only
JsDate(n) == [kind |-> "date", n |-> n]

\* JavaScript truthiness: 0 and undefined are falsy, a non-empty string is truthy
Truthy(v) == (v.kind = "number" /\ v.n # 0) \/ v.kind \in {"string", "date"}

\* parseInt / parseFloat: NaN for undefined and for non-numeric text
IsNaN(v) == v.kind # "number"
ParseNum(v) == v.n

NoMetadata == [systolic |-> JsUndef, diastolic |-> JsUndef, coordinates |-> "none"]

Invalid(err) == [isValid |-> FALSE, error |-> err]
Valid == [isValid |-> TRUE, error |-> ""]

\* OutOfRange with the two ends of the range excluded
OutOfRangeAtEnds(value, lo, hi) == IsNaN(value) \/ ParseNum(value) <= lo \/ ParseNum(value) >= hi

OutOfRange(value, lo, hi) == IsNaN(value) \/ ParseNum(value) < lo \/ ParseNum(value) > hi

validateValueByType(dataType, value, metadata) ==
    CASE dataType = "heart_rate" ->
            IF OutOfRange(value, HeartRateMin, HeartRateMax)
            THEN Invalid("Heart rate must be between min and max bpm") ELSE Valid
      [] dataType = "steps" ->
            IF OutOfRange(value, StepsMin, StepsMax)
            THEN Invalid("Steps must be between min and max") ELSE Valid
      [] dataType = "blood_pressure" ->
            IF ~Truthy(metadata.systolic) \/ ~Truthy(metadata.diastolic)
            THEN Invalid("Blood pressure requires systolic and diastolic values in metadata")
            ELSE IF OutOfRange(metadata.systolic, 70, 250)
            THEN Invalid("Systolic pressure must be between min and max mmHg")
            ELSE IF OutOfRange(metadata.diastolic, 40, 150)
            THEN Invalid("Diastolic pressure must be between min and max mmHg")
            ELSE Valid
      [] dataType = "blood_oxygen" ->
            IF OutOfRange(value, 70, 100)
            THEN Invalid("Blood oxygen must be between min and max") ELSE Valid
      [] dataType = "body_temperature" ->
            IF OutOfRange(value, 35, 42)
            THEN Invalid("Body temperature must be between min and max") ELSE Valid
      [] dataType = "sleep" ->
            IF OutOfRange(value, 0, 24 * 60)
            THEN Invalid("Sleep duration must be between 0 and 1440 minutes (24 hours)") ELSE Valid
      [] dataType \in {"activity", "workout"} ->
            IF OutOfRange(value, 0, 12 * 60)
            THEN Invalid("Activity duration must be between 0 and 720 minutes (12 hours)") ELSE Valid
      [] dataType = "calories_burned" ->
            IF OutOfRange(value, 0, 10000)
            THEN Invalid("Calories burned must be between 0 and 10000") ELSE Valid
      [] dataType = "distance" ->
            IF OutOfRange(value, 0, 1000000)
            THEN Invalid("Distance must be between 0 and 1000000 meters") ELSE Valid
      [] dataType = "floors_climbed" ->
            IF OutOfRange(value, 0, 1000)
            THEN Invalid("Floors climbed must be between 0 and 1000") ELSE Valid
      [] dataType = "gps_route" ->
            IF OutOfRange(value, 0, 50000)
            THEN Invalid("GPS route points must be between 0 and 50000")
            ELSE IF metadata.coordinates = "invalid"
            THEN Invalid("Invalid GPS coordinates in metadata")
            ELSE Valid
      [] OTHER ->
            IF IsNaN(value) THEN Invalid("Value must be a valid number") ELSE Valid

\* validateHealthData without the check of the record's age
validateHealthDataAgeUnchecked(dataType, record, clock) ==
    IF ~Truthy(record.timestamp) \/ ~Truthy(record.value)
    THEN Invalid("Missing required fields: timestamp and value")
    ELSE IF IsNaN(record.timestamp) \/ ParseNum(record.timestamp) < 0
    THEN Invalid("Invalid timestamp")
    ELSE IF ParseNum(record.timestamp) > clock + GracePeriod
    THEN Invalid("Timestamp cannot be in the future")
    ELSE validateValueByType(dataType, record.value, record.metadata)

\* validateHealthData without the grace period for timestamps ahead of the clock
validateHealthDataNoGrace(dataType, record, clock) ==
    IF ~Truthy(record.timestamp) \/ ~Truthy(record.value)
    THEN Invalid("Missing required fields: timestamp and value")
    ELSE IF IsNaN(record.timestamp) \/ ParseNum(record.timestamp) < 0
    THEN Invalid("Invalid timestamp")
    ELSE IF clock - ParseNum(record.timestamp) > MaxRecordAge
    THEN Invalid("Record too old")
    ELSE IF ParseNum(record.timestamp) > clock
    THEN Invalid("Timestamp cannot be in the future")
    ELSE validateValueByType(dataType, record.value, record.metadata)

\* timestamp and value present, timestamp a number within
\* [clock - maxRecordAge, clock + 5 minutes], value within the type's bounds
validateHealthData(dataType, record, clock) ==
    IF ~Truthy(record.timestamp) \/ ~Truthy(record.value)
    THEN Invalid("Missing required fields: timestamp and value")
    ELSE IF IsNaN(record.timestamp) \/ ParseNum(record.timestamp) < 0
    THEN Invalid("Invalid timestamp")
    ELSE IF clock - ParseNum(record.timestamp) > MaxRecordAge
    THEN Invalid("Record too old")
    ELSE IF ParseNum(record.timestamp) > clock + GracePeriod
    THEN Invalid("Timestamp cannot be in the future")
    ELSE validateValueByType(dataType, record.value, record.metadata)

sanitizeHealthData(dataType, record) ==
    [timestamp |-> ParseNum(record.timestamp), value |-> ParseNum(record.value)]

(***************************************************************************)
(* Device registry rows (table devices)                                    *)
(***************************************************************************)
DefaultName(deviceType) == IF deviceType = "ios" THEN "ios Device" ELSE "wearos Device"

\* INSERT INTO devices: last_sync_timestamp defaults to 0, is_active to 1
NewDevice(name, type, metadata, clock) ==
    [name |-> name, type |-> type, last_seen |-> clock,
     last_sync_timestamp |-> 0, is_active |-> TRUE, metadata |-> metadata]

\* TypeAllowed of a devices table without the CHECK constraint on type
TypeAllowedAny(type) == type = type

\* The CHECK constraint of devices.type: an INSERT of any other type throws
TypeAllowed(type) == type \in DeviceTypes

\* healthData.js ensureDeviceExists: the devices table afterwards, or the throw
ensureDeviceExists(devs, deviceId, deviceName, deviceType, clock) ==
    IF deviceId \in DOMAIN devs
    THEN [ok |-> TRUE, devices |-> [devs EXCEPT ![deviceId].last_seen = clock]]
    ELSE IF ~TypeAllowed(deviceType)
    THEN [ok |-> FALSE, devices |-> devs]
    ELSE [ok |-> TRUE,
          devices |-> devs @@ (deviceId :>
              NewDevice(IF deviceName = "" THEN DefaultName(deviceType) ELSE deviceName,
                        deviceType, "auto_created", clock))]

updateDeviceLastSync(devs, deviceId, timestamp) ==
    [devs EXCEPT ![deviceId].last_sync_timestamp = timestamp]

(***************************************************************************)
(* Ingestion: POST /api/v1/health-data                                     *)
(***************************************************************************)
Indices(records) == [i \in 1..Len(records) |-> i]

\* positions (1-based) of the records that pass validation, in batch order
ValidPositions(dataType, records, clock) ==
    SelectSeq(Indices(records),
              LAMBDA i : validateHealthData(dataType, records[i], clock).isValid)

\* ValidationErrors numbering the errors by their rank among the errors
ValidationErrorsByRank(dataType, records, clock) ==
    LET bad == SelectSeq(Indices(records),
                   LAMBDA i : ~validateHealthData(dataType, records[i], clock).isValid)
    IN [k \in 1..Len(bad) |->
           [index |-> k - 1,
            error |-> validateHealthData(dataType, records[bad[k]], clock).error]]

\* errors[] of the response: index (0-based, as on the wire) and reason
ValidationErrors(dataType, records, clock) ==
    LET bad == SelectSeq(Indices(records),
                   LAMBDA i : ~validateHealthData(dataType, records[i], clock).isValid)
    IN [k \in 1..Len(bad) |->
           [index |-> bad[k] - 1,
            error |-> validateHealthData(dataType, records[bad[k]], clock).error]]

validRecordsOf(dataType, records, clock) ==
    LET pos == ValidPositions(dataType, records, clock)
    IN [k \in 1..Len(pos) |-> sanitizeHealthData(dataType, records[pos[k]])]

\* insertHealthRecords under a unique index on (device_id, data_type,
\* timestamp): the INSERT of a row that is already stored is skipped
insertHealthRecordsUnique(deviceId, dataType, records, failed, clock) ==
    LET stored(k) == \E j \in 1..Len(health_data) :
                        /\ health_data[j].device_id = deviceId
                        /\ health_data[j].data_type = dataType
                        /\ health_data[j].timestamp = records[k].timestamp
        kept == SelectSeq(Indices(records), LAMBDA k : k \notin failed /\ ~stored(k))
    IN [k \in 1..Len(kept) |->
           [device_id |-> deviceId, data_type |-> dataType,
            timestamp |-> records[kept[k]].timestamp,
            value |-> records[kept[k]].value, created_at |-> clock]]

\* insertHealthRecords giving up at the first INSERT that throws
insertHealthRecordsUntilFailure(deviceId, dataType, records, failed, clock) ==
    LET kept == SelectSeq(Indices(records), LAMBDA k : \A j \in 1..k : j \notin failed)
    IN [k \in 1..Len(kept) |->
           [device_id |-> deviceId, data_type |-> dataType,
            timestamp |-> records[kept[k]].timestamp,
            value |-> records[kept[k]].value, created_at |-> clock]]

\* insertHealthRecords: one INSERT per record; a throwing INSERT (positions in
\* failed) is logged and skipped, the loop goes on
insertHealthRecords(deviceId, dataType, records, failed, clock) ==
    LET kept == SelectSeq(Indices(records), LAMBDA k : k \notin failed)
    IN [k \in 1..Len(kept) |->
           [device_id |-> deviceId, data_type |-> dataType,
            timestamp |-> records[kept[k]].timestamp,
            value |-> records[kept[k]].value, created_at |-> clock]]

MaxOf(S) == CHOOSE m \in S : \A x \in S : x <= m

\* maxTimestampOf leaving the cursor at the epoch when nothing was accepted
maxTimestampOfOrZero(validRecords, clock) ==
    IF Len(validRecords) > 0
    THEN MaxOf({validRecords[k].timestamp : k \in 1..Len(validRecords)})
    ELSE 0

maxTimestampOf(validRecords, clock) ==
    IF Len(validRecords) > 0
    THEN MaxOf({validRecords[k].timestamp : k \in 1..Len(validRecords)})
    ELSE clock

\* what the handler answered: the handler, the HTTP status (0 while the request
\* is still in flight), the server time of the call, the request and the body
Respond(op, code, req, body) ==
    [op |-> op, code |-> code, at |-> now, req |-> req, body |-> body]

NoBody == [none |-> TRUE]

\* PostHealthData that touches the device before it checks the request
PostHealthDataTouchFirst(req, failed) ==
    LET ensured == ensureDeviceExists(devices, req.deviceId, req.deviceName,
                       IF req.deviceType = "" THEN "wearos" ELSE req.deviceType, now)
        validRecords == validRecordsOf(req.dataType, req.records, now)
        errors == ValidationErrors(req.dataType, req.records, now)
        rows == insertHealthRecords(req.deviceId, req.dataType, validRecords, failed, now)
        maxTimestamp == maxTimestampOf(validRecords, now)
    IN IF req.deviceId = "" \/ req.dataType = "" \/ ~req.isArray
       THEN /\ last' = Respond("postHealthData", 400, req, NoBody)
            /\ UNCHANGED <<other_vars, now, devices, health_data, sync_sessions, completing>>
       ELSE IF ~ensured.ok
       THEN /\ last' = Respond("postHealthData", 500, req, NoBody)
            /\ UNCHANGED <<other_vars, now, devices, health_data, sync_sessions, completing>>
       ELSE IF req.dataType \notin SupportedTypes \/ Len(req.records) > MaxBatchSize
       THEN /\ last' = Respond("postHealthData", 400, req, NoBody)
            /\ devices' = ensured.devices
            /\ UNCHANGED <<other_vars, now, health_data, sync_sessions, completing>>
       ELSE /\ failed \subseteq 1..Len(validRecords)
            /\ Len(health_data) + Len(rows) <= MaxRows
            /\ health_data' = health_data \o rows
            /\ devices' = updateDeviceLastSync(ensured.devices, req.deviceId, maxTimestamp)
            /\ last' = Respond("postHealthData", 200, req,
                   [total |-> Len(req.records), inserted |-> Len(rows),
                    errors |-> errors])
            /\ UNCHANGED <<other_vars, now, sync_sessions, completing>>

\* req: deviceId, dataType, deviceName, deviceType ("" when absent),
\* isArray (records is an array), records; failed: the INSERTs that throw
PostHealthData(req, failed) ==
    IF req.deviceId = "" \/ req.dataType = "" \/ ~req.isArray
    THEN /\ last' = Respond("postHealthData", 400, req, NoBody)
         /\ UNCHANGED <<other_vars, now, devices, health_data, sync_sessions, completing>>
    ELSE IF req.dataType \notin SupportedTypes
    THEN /\ last' = Respond("postHealthData", 400, req, NoBody)
         /\ UNCHANGED <<other_vars, now, devices, health_data, sync_sessions, completing>>
    ELSE IF Len(req.records) > MaxBatchSize
    THEN /\ last' = Respond("postHealthData", 400, req, NoBody)
         /\ UNCHANGED <<other_vars, now, devices, health_data, sync_sessions, completing>>
    ELSE LET ensured == ensureDeviceExists(devices, req.deviceId, req.deviceName,
                            IF req.deviceType = "" THEN "wearos" ELSE req.deviceType, now)
             validRecords == validRecordsOf(req.dataType, req.records, now)
             errors == ValidationErrors(req.dataType, req.records, now)
             rows == insertHealthRecords(req.deviceId, req.dataType, validRecords, failed, now)
             maxTimestamp == maxTimestampOf(validRecords, now)
         IN IF ~ensured.ok
            THEN /\ last' = Respond("postHealthData", 500, req, NoBody)
                 /\ UNCHANGED <<other_vars, now, devices, health_data, sync_sessions, completing>>
            ELSE /\ failed \subseteq 1..Len(validRecords)
                 /\ Len(health_data) + Len(rows) <= MaxRows
                 /\ health_data' = health_data \o rows
                 /\ devices' = updateDeviceLastSync(ensured.devices, req.deviceId, maxTimestamp)
                 /\ last' = Respond("postHealthData", 200, req,
                        [total |-> Len(req.records), inserted |-> Len(rows),
                         errors |-> errors])
                 /\ UNCHANGED <<other_vars, now, sync_sessions, completing>>

(***************************************************************************)
(* iOS compatibility upload: POST /api/v1/data                             *)
(***************************************************************************)
\* data.js ensureDeviceExists: an existing row is touched and re-activated
ensureIosDeviceExists(devs, deviceId, deviceName, deviceType, clock) ==
    IF deviceId \in DOMAIN devs
    THEN [devs EXCEPT ![deviceId].last_seen = clock, ![deviceId].is_active = TRUE]
    ELSE devs @@ (deviceId :> NewDevice(deviceName, deviceType, "NULL", clock))

\* item.timestamp ? new Date(item.timestamp).getTime() : Date.now()
IosTimestamp(item, clock) ==
    IF ~Truthy(item.timestamp) THEN JsNum(clock)
    ELSE IF item.timestamp.kind = "date" THEN JsNum(item.timestamp.n)
    ELSE item.timestamp

\* one INSERT per item, no validation; an INSERT throws when the timestamp is
\* NaN (NOT NULL column) or for the positions in failed, and is then skipped
IosRows(deviceId, dataType, items, failed, clock) ==
    LET kept == SelectSeq(Indices(items),
                    LAMBDA k : k \notin failed /\ ~IsNaN(IosTimestamp(items[k], clock)))
    IN [k \in 1..Len(kept) |->
           [device_id |-> deviceId, data_type |-> dataType,
            timestamp |-> ParseNum(IosTimestamp(items[kept[k]], clock)),
            value |-> ParseNum(items[kept[k]].value), created_at |-> clock]]

\* batch: hasId, hasTimestamp, heartRateData, stepCountData, sleepData, workoutData
\* failed: per list, the positions whose INSERT throws
PostIosData(batch, failed) ==
    IF ~batch.hasId \/ ~batch.hasTimestamp
    THEN /\ last' = Respond("postIosData", 400, batch, NoBody)
         /\ UNCHANGED <<other_vars, now, devices, health_data, sync_sessions, completing>>
    ELSE LET rows == IosRows(IosDeviceId, "heart_rate", batch.heartRateData, failed.heartRate, now)
                     \o IosRows(IosDeviceId, "steps", batch.stepCountData, failed.stepCount, now)
                     \o IosRows(IosDeviceId, "sleep", batch.sleepData, failed.sleep, now)
                     \o IosRows(IosDeviceId, "workout", batch.workoutData, failed.workout, now)
         IN /\ Len(health_data) + Len(rows) <= MaxRows
            /\ devices' = ensureIosDeviceExists(devices, IosDeviceId, "iPhone", "ios", now)
            /\ health_data' = health_data \o rows
            /\ last' = Respond("postIosData", 200, batch, [processedCount |-> Len(rows)])
            /\ UNCHANGED <<other_vars, now, sync_sessions, completing>>

(***************************************************************************)
(* Device registry: POST /sync/register, DELETE /sync/device/:deviceId     *)
(***************************************************************************)
validateDeviceRegistration(req) ==
    IF req.deviceId = "" THEN Invalid("Device ID must be a string between 1 and 100 characters")
    ELSE IF req.deviceName = "" THEN Invalid("Device name must be a string between 1 and 255 characters")
    ELSE IF req.deviceType \notin {"wearos", "ios"} THEN Invalid("Device type must be either wearos or ios")
    ELSE Valid

\* Register whose UPDATE of an existing row leaves is_active as it is
RegisterKeepingInactive(req) ==
    IF ~validateDeviceRegistration(req).isValid
    THEN /\ last' = Respond("register", 400, req, NoBody)
         /\ UNCHANGED <<other_vars, now, devices, health_data, sync_sessions, completing>>
    ELSE LET metadata == IF req.metadata = "" THEN "{}" ELSE req.metadata
         IN /\ IF req.deviceId \in DOMAIN devices
               THEN /\ devices' = [devices EXCEPT ![req.deviceId].name = req.deviceName,
                                                  ![req.deviceId].type = req.deviceType,
                                                  ![req.deviceId].last_seen = now,
                                                  ![req.deviceId].metadata = metadata]
                    /\ last' = Respond("register", 200, req,
                           [lastSyncTimestamp |-> devices[req.deviceId].last_sync_timestamp])
               ELSE /\ devices' = devices @@ (req.deviceId :>
                           NewDevice(req.deviceName, req.deviceType, metadata, now))
                    /\ last' = Respond("register", 201, req, [lastSyncTimestamp |-> 0])
            /\ UNCHANGED <<other_vars, now, health_data, sync_sessions, completing>>

\* req: deviceId, deviceName, deviceType, metadata ("" when absent)
Register(req) ==
    IF ~validateDeviceRegistration(req).isValid
    THEN /\ last' = Respond("register", 400, req, NoBody)
         /\ UNCHANGED <<other_vars, now, devices, health_data, sync_sessions, completing>>
    ELSE LET metadata == IF req.metadata = "" THEN "{}" ELSE req.metadata
         IN /\ IF req.deviceId \in DOMAIN devices
               THEN /\ devices' = [devices EXCEPT ![req.deviceId].name = req.deviceName,
                                                  ![req.deviceId].type = req.deviceType,
                                                  ![req.deviceId].last_seen = now,
                                                  ![req.deviceId].is_active = TRUE,
                                                  ![req.deviceId].metadata = metadata]
                    /\ last' = Respond("register", 200, req,
                           [lastSyncTimestamp |-> devices[req.deviceId].last_sync_timestamp])
               ELSE /\ devices' = devices @@ (req.deviceId :>
                           NewDevice(req.deviceName, req.deviceType, metadata, now))
                    /\ last' = Respond("register", 201, req, [lastSyncTimestamp |-> 0])
            /\ UNCHANGED <<other_vars, now, health_data, sync_sessions, completing>>

\* Unregister deleting the device row, and with it (ON DELETE CASCADE) the
\* device's health records and sessions
UnregisterDeleting(deviceId) ==
    IF deviceId \notin DOMAIN devices
    THEN /\ last' = Respond("unregister", 404, [deviceId |-> deviceId], NoBody)
         /\ UNCHANGED <<other_vars, now, devices, health_data, sync_sessions, completing>>
    ELSE /\ devices' = [d \in DOMAIN devices \ {deviceId} |-> devices[d]]
         /\ health_data' = SelectSeq(health_data, LAMBDA row : row.device_id # deviceId)
         /\ sync_sessions' = SelectSeq(sync_sessions, LAMBDA r : r.device_id # deviceId)
         /\ last' = Respond("unregister", 200, [deviceId |-> deviceId], NoBody)
         /\ UNCHANGED <<other_vars, now, completing>>

Unregister(deviceId) ==
    IF deviceId \notin DOMAIN devices
    THEN /\ last' = Respond("unregister", 404, [deviceId |-> deviceId], NoBody)
         /\ UNCHANGED <<other_vars, now, devices, health_data, sync_sessions, completing>>
    ELSE /\ devices' = [devices EXCEPT ![deviceId].is_active = FALSE]
         /\ last' = Respond("unregister", 200, [deviceId |-> deviceId], NoBody)
         /\ UNCHANGED <<other_vars, now, health_data, sync_sessions, completing>>

(***************************************************************************)
(* Cursor: PUT /sync/timestamp/:deviceId                                   *)
(***************************************************************************)
\* timestamp: the JSON value of body.timestamp
UpdateTimestamp(deviceId, timestamp) ==
    LET req == [deviceId |-> deviceId, timestamp |-> timestamp]
    IN IF ~Truthy(timestamp) \/ IsNaN(timestamp)
       THEN /\ last' = Respond("updateTimestamp", 400, req, NoBody)
            /\ UNCHANGED <<other_vars, now, devices, health_data, sync_sessions, completing>>
       ELSE IF deviceId \notin DOMAIN devices
       THEN /\ last' = Respond("updateTimestamp", 404, req, NoBody)
            /\ UNCHANGED <<other_vars, now, devices, health_data, sync_sessions, completing>>
       ELSE /\ devices' = [devices EXCEPT
                               ![deviceId].last_sync_timestamp = ParseNum(timestamp),
                               ![deviceId].last_seen = now]
            /\ last' = Respond("updateTimestamp", 200, req,
                                [lastSyncTimestamp |-> ParseNum(timestamp)])
            /\ UNCHANGED <<other_vars, now, health_data, sync_sessions, completing>>

(***************************************************************************)
(* Session tracker: POST /sync/start, POST /sync/complete                  *)
(***************************************************************************)
\* StartSession without the lookup of the device
StartSessionAnyDevice(deviceId, syncType) ==
    LET req == [deviceId |-> deviceId, syncType |-> syncType]
    IN IF deviceId = ""
       THEN /\ last' = Respond("start", 400, req, NoBody)
            /\ UNCHANGED <<other_vars, now, devices, health_data, sync_sessions, completing>>
       ELSE IF syncType \notin {"http", "bluetooth"}
       THEN /\ last' = Respond("start", 400, req, NoBody)
            /\ UNCHANGED <<other_vars, now, devices, health_data, sync_sessions, completing>>
       ELSE /\ Len(sync_sessions) < MaxSessions
            /\ sync_sessions' = Append(sync_sessions,
                   [device_id |-> deviceId, sync_type |-> syncType, status |-> "started",
                    records_synced |-> 0, start_time |-> now, end_time |-> <<>>,
                    error_message |-> ""])
            /\ last' = Respond("start", 200, req, [sessionId |-> Len(sync_sessions) + 1])
            /\ UNCHANGED <<other_vars, now, devices, health_data, completing>>

\* StartSession refusing a device that has a session in status started
StartSessionGated(deviceId, syncType) ==
    LET req == [deviceId |-> deviceId, syncType |-> syncType]
    IN IF deviceId = ""
       THEN /\ last' = Respond("start", 400, req, NoBody)
            /\ UNCHANGED <<other_vars, now, devices, health_data, sync_sessions, completing>>
       ELSE IF syncType \notin {"http", "bluetooth"}
       THEN /\ last' = Respond("start", 400, req, NoBody)
            /\ UNCHANGED <<other_vars, now, devices, health_data, sync_sessions, completing>>
       ELSE IF deviceId \notin DOMAIN devices
       THEN /\ last' = Respond("start", 404, req, NoBody)
            /\ UNCHANGED <<other_vars, now, devices, health_data, sync_sessions, completing>>
       ELSE IF \E s \in DOMAIN sync_sessions :
                   /\ sync_sessions[s].device_id = deviceId
                   /\ sync_sessions[s].status = "started"
       THEN /\ last' = Respond("start", 409, req, NoBody)
            /\ UNCHANGED <<other_vars, now, devices, health_data, sync_sessions, completing>>
       ELSE /\ Len(sync_sessions) < MaxSessions
            /\ sync_sessions' = Append(sync_sessions,
                   [device_id |-> deviceId, sync_type |-> syncType, status |-> "started",
                    records_synced |-> 0, start_time |-> now, end_time |-> <<>>,
                    error_message |-> ""])
            /\ last' = Respond("start", 200, req, [sessionId |-> Len(sync_sessions) + 1])
            /\ UNCHANGED <<other_vars, now, devices, health_data, completing>>

\* sync_sessions is indexed by session id (the uuid of the n-th session is n);
\* end_time is <<>> while NULL, error_message "" while NULL
StartSession(deviceId, syncType) ==
    LET req == [deviceId |-> deviceId, syncType |-> syncType]
    IN IF deviceId = ""
       THEN /\ last' = Respond("start", 400, req, NoBody)
            /\ UNCHANGED <<other_vars, now, devices, health_data, sync_sessions, completing>>
       ELSE IF syncType \notin {"http", "bluetooth"}
       THEN /\ last' = Respond("start", 400, req, NoBody)
            /\ UNCHANGED <<other_vars, now, devices, health_data, sync_sessions, completing>>
       ELSE IF deviceId \notin DOMAIN devices
       THEN /\ last' = Respond("start", 404, req, NoBody)
            /\ UNCHANGED <<other_vars, now, devices, health_data, sync_sessions, completing>>
       ELSE /\ Len(sync_sessions) < MaxSessions
            /\ sync_sessions' = Append(sync_sessions,
                   [device_id |-> deviceId, sync_type |-> syncType, status |-> "started",
                    records_synced |-> 0, start_time |-> now, end_time |-> <<>>,
                    error_message |-> ""])
            /\ last' = Respond("start", 200, req, [sessionId |-> Len(sync_sessions) + 1])
            /\ UNCHANGED <<other_vars, now, devices, health_data, completing>>

\* CompleteCheck without the check of the status it read
CompleteCheckAnyStatus(req) ==
    IF req.sessionId = 0
    THEN /\ last' = Respond("complete", 400, req, [error |-> "Session ID is required"])
         /\ UNCHANGED <<other_vars, now, devices, health_data, sync_sessions, completing>>
    ELSE IF req.sessionId \notin DOMAIN sync_sessions
    THEN /\ last' = Respond("complete", 404, req, [error |-> "Sync session not found"])
         /\ UNCHANGED <<other_vars, now, devices, health_data, sync_sessions, completing>>
    ELSE /\ req \notin completing
         /\ Cardinality(completing) < MaxPending
         /\ completing' = completing \cup {req}
         /\ last' = Respond("complete", 0, req, NoBody)
         /\ UNCHANGED <<other_vars, now, devices, health_data, sync_sessions>>

\* complete, up to its first storage call: the SELECT of the session and the
\* checks on what it read. A request that passes waits in completing for its
\* UPDATE. req: sessionId (0 when absent), recordsSynced, errorMessage
CompleteCheck(req) ==
    IF req.sessionId = 0
    THEN /\ last' = Respond("complete", 400, req, [error |-> "Session ID is required"])
         /\ UNCHANGED <<other_vars, now, devices, health_data, sync_sessions, completing>>
    ELSE IF req.sessionId \notin DOMAIN sync_sessions
    THEN /\ last' = Respond("complete", 404, req, [error |-> "Sync session not found"])
         /\ UNCHANGED <<other_vars, now, devices, health_data, sync_sessions, completing>>
    ELSE IF sync_sessions[req.sessionId].status # "started"
    THEN /\ last' = Respond("complete", 400, req,
                             [error |-> "Cannot complete session with status"])
         /\ UNCHANGED <<other_vars, now, devices, health_data, sync_sessions, completing>>
    ELSE /\ req \notin completing
         /\ Cardinality(completing) < MaxPending
         /\ completing' = completing \cup {req}
         /\ last' = Respond("complete", 0, req, NoBody)
         /\ UNCHANGED <<other_vars, now, devices, health_data, sync_sessions>>

\* CompleteUpdate writing the status completed whatever the request carries
CompleteUpdateAlwaysCompleted(req) ==
    /\ req \in completing
    /\ completing' = completing \ {req}
    /\ sync_sessions' = [sync_sessions EXCEPT
           ![req.sessionId].status = "completed",
           ![req.sessionId].records_synced = req.recordsSynced,
           ![req.sessionId].end_time = <<now>>,
           ![req.sessionId].error_message = req.errorMessage]
    /\ last' = Respond("completeUpdate", 200, req,
                       [status |-> "completed", recordsSynced |-> req.recordsSynced])
    /\ UNCHANGED <<other_vars, now, devices, health_data>>

\* complete, from its UPDATE on: the statement names the session by id only
CompleteUpdate(req) ==
    LET status == IF req.errorMessage # "" THEN "failed" ELSE "completed"
    IN /\ req \in completing
       /\ completing' = completing \ {req}
       /\ sync_sessions' = [sync_sessions EXCEPT
              ![req.sessionId].status = status,
              ![req.sessionId].records_synced = req.recordsSynced,
              ![req.sessionId].end_time = <<now>>,
              ![req.sessionId].error_message = req.errorMessage]
       /\ last' = Respond("completeUpdate", 200, req,
                          [status |-> status, recordsSynced |-> req.recordsSynced])
       /\ UNCHANGED <<other_vars, now, devices, health_data>>

(***************************************************************************)
(* Sync cursor protocol: GET /sync/data/:deviceId                          *)
(***************************************************************************)
\* a query parameter is undefined or a string: JsNum(n) is the text of n
Present(v) == v.kind # "undefined"

BadNumber(v) == Present(v) /\ (IsNaN(v) \/ ParseNum(v) < 0)

\* q: since, until, limit, offset (query strings), dataType ("" when absent);
\* limit and offset have taken their defaults (1000, 0) when absent
\* validateSyncParams without the check of limit
validateSyncParamsAnyLimit(q) ==
    IF BadNumber(q.since) THEN Invalid("Since parameter must be a valid timestamp")
    ELSE IF BadNumber(q.until) THEN Invalid("Until parameter must be a valid timestamp")
    ELSE IF IsNaN(q.offset) \/ ParseNum(q.offset) < 0
    THEN Invalid("Offset must be a non-negative number")
    ELSE Valid

validateSyncParams(q) ==
    IF BadNumber(q.since) THEN Invalid("Since parameter must be a valid timestamp")
    ELSE IF BadNumber(q.until) THEN Invalid("Until parameter must be a valid timestamp")
    ELSE IF IsNaN(q.limit) \/ ParseNum(q.limit) < 1 \/ ParseNum(q.limit) > MaxBatchSize
    THEN Invalid("Limit must be between 1 and maxBatchSize")
    ELSE IF IsNaN(q.offset) \/ ParseNum(q.offset) < 0
    THEN Invalid("Offset must be a non-negative number")
    ELSE Valid

\* SyncConditions without the exclusion of the requesting device's rows
SyncConditionsAnyDevice(row, deviceId, sinceTimestamp, q) ==
    /\ (sinceTimestamp > 0 => row.timestamp > sinceTimestamp)
    /\ (Present(q.until) => row.timestamp <= ParseNum(q.until))
    /\ (q.dataType # "" => row.data_type = q.dataType)

\* the WHERE clause built by the handler, as a predicate on a row
SyncConditions(row, deviceId, sinceTimestamp, q) ==
    /\ row.device_id # deviceId
    /\ (sinceTimestamp > 0 => row.timestamp > sinceTimestamp)
    /\ (Present(q.until) => row.timestamp <= ParseNum(q.until))
    /\ (q.dataType # "" => row.data_type = q.dataType)

RECURSIVE InsertDesc(_, _)
InsertDesc(row, sorted) ==
    IF sorted = <<>> THEN <<row>>
    ELSE IF Head(sorted).timestamp >= row.timestamp
    THEN <<Head(sorted)>> \o InsertDesc(row, Tail(sorted))
    ELSE <<row>> \o sorted

\* OrderByTimestampDesc without the ORDER BY: the rows in rowid order
OrderByRowid(rows) == rows

\* ORDER BY timestamp DESC; rows of equal timestamp stay in rowid order
RECURSIVE OrderByTimestampDesc(_)
OrderByTimestampDesc(rows) ==
    IF rows = <<>> THEN <<>>
    ELSE InsertDesc(rows[Len(rows)], OrderByTimestampDesc(SubSeq(rows, 1, Len(rows) - 1)))

Min(a, b) == IF a <= b THEN a ELSE b

\* the columns the SELECT names
Selected(row) ==
    [device_id |-> row.device_id, data_type |-> row.data_type,
     timestamp |-> row.timestamp, value |-> row.value]

\* LIMIT ? with the OFFSET dropped
LimitOffsetFromStart(rows, limitNum, offsetNum) ==
    SubSeq(rows, 1, Min(Len(rows), limitNum))

\* LIMIT ? OFFSET ?
LimitOffset(rows, limitNum, offsetNum) ==
    SubSeq(rows, offsetNum + 1, Min(Len(rows), offsetNum + limitNum))

\* SyncData that also moves the cursor of the requesting device to the clock
SyncDataAdvancing(deviceId, q) ==
    LET req == [deviceId |-> deviceId, q |-> q]
    IN IF ~validateSyncParams(q).isValid
       THEN /\ last' = Respond("syncData", 400, req, NoBody)
            /\ UNCHANGED <<other_vars, now, devices, health_data, sync_sessions, completing>>
       ELSE IF deviceId \notin DOMAIN devices
       THEN /\ last' = Respond("syncData", 404, req, NoBody)
            /\ UNCHANGED <<other_vars, now, devices, health_data, sync_sessions, completing>>
       ELSE IF q.dataType # "" /\ q.dataType \notin SupportedTypes
       THEN /\ last' = Respond("syncData", 400, req, NoBody)
            /\ UNCHANGED <<other_vars, now, devices, health_data, sync_sessions, completing>>
       ELSE LET sinceTimestamp == IF Present(q.since) THEN ParseNum(q.since)
                                  ELSE devices[deviceId].last_sync_timestamp
                limitNum == Min(ParseNum(q.limit), MaxBatchSize)
                offsetNum == ParseNum(q.offset)
                matching == SelectSeq(health_data,
                                LAMBDA row : SyncConditions(row, deviceId, sinceTimestamp, q))
                page == LimitOffset(OrderByTimestampDesc(matching), limitNum, offsetNum)
                records == [k \in 1..Len(page) |-> Selected(page[k])]
            IN /\ last' = Respond("syncData", 200, req,
                      [data |-> records,
                       pagination |-> [total |-> Len(matching), limit |-> limitNum,
                                       offset |-> offsetNum,
                                       hasMore |-> (offsetNum + Len(records)) < Len(matching)],
                       lastSyncTimestamp |-> sinceTimestamp])
               /\ devices' = updateDeviceLastSync(devices, deviceId, now)
               /\ UNCHANGED <<other_vars, now, health_data, sync_sessions, completing>>

SyncData(deviceId, q) ==
    LET req == [deviceId |-> deviceId, q |-> q]
    IN IF ~validateSyncParams(q).isValid
       THEN /\ last' = Respond("syncData", 400, req, NoBody)
            /\ UNCHANGED <<other_vars, now, devices, health_data, sync_sessions, completing>>
       ELSE IF deviceId \notin DOMAIN devices
       THEN /\ last' = Respond("syncData", 404, req, NoBody)
            /\ UNCHANGED <<other_vars, now, devices, health_data, sync_sessions, completing>>
       ELSE IF q.dataType # "" /\ q.dataType \notin SupportedTypes
       THEN /\ last' = Respond("syncData", 400, req, NoBody)
            /\ UNCHANGED <<other_vars, now, devices, health_data, sync_sessions, completing>>
       ELSE LET sinceTimestamp == IF Present(q.since) THEN ParseNum(q.since)
                                  ELSE devices[deviceId].last_sync_timestamp
                limitNum == Min(ParseNum(q.limit), MaxBatchSize)
                offsetNum == ParseNum(q.offset)
                matching == SelectSeq(health_data,
                                LAMBDA row : SyncConditions(row, deviceId, sinceTimestamp, q))
                page == LimitOffset(OrderByTimestampDesc(matching), limitNum, offsetNum)
                records == [k \in 1..Len(page) |-> Selected(page[k])]
            IN /\ last' = Respond("syncData", 200, req,
                      [data |-> records,
                       pagination |-> [total |-> Len(matching), limit |-> limitNum,
                                       offset |-> offsetNum,
                                       hasMore |-> (offsetNum + Len(records)) < Len(matching)],
                       lastSyncTimestamp |-> sinceTimestamp])
               /\ UNCHANGED <<other_vars, now, devices, health_data, sync_sessions, completing>>

(***************************************************************************)
(* Bulk delete: DELETE /api/v1/health-data                                 *)
(***************************************************************************)
\* the WHERE clause built by the handler, as a predicate on a row
DeleteConditions(row, deviceId, dataType, before) ==
    /\ (deviceId # "" => row.device_id = deviceId)
    /\ (dataType # "" => row.data_type = dataType)
    /\ (Present(before) => row.timestamp < ParseNum(before))

\* DeleteHealthData without the check of the environment
DeleteHealthDataAnywhere(environment, deviceId, dataType, before) ==
    LET req == [environment |-> environment, deviceId |-> deviceId,
                dataType |-> dataType, before |-> before]
        kept == SelectSeq(health_data,
                    LAMBDA row : ~DeleteConditions(row, deviceId, dataType, before))
    IN IF Present(before) /\ IsNaN(before)
       THEN /\ last' = Respond("deleteHealthData", 400, req, NoBody)
            /\ UNCHANGED <<other_vars, now, devices, health_data, sync_sessions, completing>>
       ELSE IF deviceId = "" /\ dataType = "" /\ ~Present(before)
       THEN /\ last' = Respond("deleteHealthData", 400, req, NoBody)
            /\ UNCHANGED <<other_vars, now, devices, health_data, sync_sessions, completing>>
       ELSE /\ health_data' = kept
            /\ last' = Respond("deleteHealthData", 200, req,
                   [deleted_records |-> Len(health_data) - Len(kept)])
            /\ UNCHANGED <<other_vars, now, devices, sync_sessions, completing>>

\* DeleteHealthData serving the request in the development environment only
DeleteHealthDataDevelopmentOnly(environment, deviceId, dataType, before) ==
    LET req == [environment |-> environment, deviceId |-> deviceId,
                dataType |-> dataType, before |-> before]
        kept == SelectSeq(health_data,
                    LAMBDA row : ~DeleteConditions(row, deviceId, dataType, before))
    IN IF environment # "development"
       THEN /\ last' = Respond("deleteHealthData", 403, req, NoBody)
            /\ UNCHANGED <<other_vars, now, devices, health_data, sync_sessions, completing>>
       ELSE IF Present(before) /\ IsNaN(before)
       THEN /\ last' = Respond("deleteHealthData", 400, req, NoBody)
            /\ UNCHANGED <<other_vars, now, devices, health_data, sync_sessions, completing>>
       ELSE IF deviceId = "" /\ dataType = "" /\ ~Present(before)
       THEN /\ last' = Respond("deleteHealthData", 400, req, NoBody)
            /\ UNCHANGED <<other_vars, now, devices, health_data, sync_sessions, completing>>
       ELSE /\ health_data' = kept
            /\ last' = Respond("deleteHealthData", 200, req,
                   [deleted_records |-> Len(health_data) - Len(kept)])
            /\ UNCHANGED <<other_vars, now, devices, sync_sessions, completing>>

\* environment: config.server.environment of the process that serves the call
\* (NODE_ENV, "development" when unset); deviceId, dataType: "" when absent;
\* before: a query string
DeleteHealthData(environment, deviceId, dataType, before) ==
    LET req == [environment |-> environment, deviceId |-> deviceId,
                dataType |-> dataType, before |-> before]
        kept == SelectSeq(health_data,
                    LAMBDA row : ~DeleteConditions(row, deviceId, dataType, before))
    IN IF environment = "production"
       THEN /\ last' = Respond("deleteHealthData", 403, req, NoBody)
            /\ UNCHANGED <<other_vars, now, devices, health_data, sync_sessions, completing>>
       ELSE IF Present(before) /\ IsNaN(before)
       THEN /\ last' = Respond("deleteHealthData", 400, req, NoBody)
            /\ UNCHANGED <<other_vars, now, devices, health_data, sync_sessions, completing>>
       ELSE IF deviceId = "" /\ dataType = "" /\ ~Present(before)
       THEN /\ last' = Respond("deleteHealthData", 400, req, NoBody)
            /\ UNCHANGED <<other_vars, now, devices, health_data, sync_sessions, completing>>
       ELSE /\ health_data' = kept
            /\ last' = Respond("deleteHealthData", 200, req,
                   [deleted_records |-> Len(health_data) - Len(kept)])
            /\ UNCHANGED <<other_vars, now, devices, sync_sessions, completing>>

(***************************************************************************)
(* Status: GET /sync/status/:deviceId                                      *)
(***************************************************************************)
\* ORDER BY start_time DESC LIMIT 1: a session of the device with the latest
\* start time (any of them when several share it), <<>> for null
LatestSessions(deviceId) ==
    LET own == {k \in DOMAIN sync_sessions : sync_sessions[k].device_id = deviceId}
    IN IF own = {} THEN {<<>>}
       ELSE {<<sync_sessions[k]>> :
                k \in {j \in own : \A i \in own :
                          sync_sessions[i].start_time <= sync_sessions[j].start_time}}

\* COUNT(*) and MAX(timestamp) of the device's rows, GROUP BY data_type
HealthStats(deviceId) ==
    LET own(dataType) == {k \in DOMAIN health_data :
                             /\ health_data[k].device_id = deviceId
                             /\ health_data[k].data_type = dataType}
    IN {[data_type |-> dataType, count |-> Cardinality(own(dataType)),
         latest_timestamp |-> MaxOf({health_data[k].timestamp : k \in own(dataType)})] :
            dataType \in {t \in SupportedTypes : own(t) # {}}}

GetStatus(deviceId) ==
    IF deviceId \notin DOMAIN devices
    THEN /\ last' = Respond("status", 404, [deviceId |-> deviceId], NoBody)
         /\ UNCHANGED <<other_vars, now, devices, health_data, sync_sessions, completing>>
    ELSE /\ \E latestSync \in LatestSessions(deviceId) :
                last' = Respond("status", 200, [deviceId |-> deviceId],
                    [device |-> [id |-> deviceId, name |-> devices[deviceId].name,
                                 type |-> devices[deviceId].type,
                                 lastSyncTimestamp |-> devices[deviceId].last_sync_timestamp,
                                 lastSeen |-> devices[deviceId].last_seen,
                                 isActive |-> devices[deviceId].is_active],
                     latestSync |-> latestSync,
                     healthDataStats |-> HealthStats(deviceId)])
         /\ UNCHANGED <<other_vars, now, devices, health_data, sync_sessions, completing>>

(***************************************************************************)
(* POST /api/v1/health-data, one storage call at a time: the handler       *)
(* awaits each call, and other handlers run in between                     *)
(***************************************************************************)
HandlerIds == {"h1", "h2"}

\* what no step of an ingestion handler writes
beside_ingestion == <<now, sync_sessions, completing, device_settings, wss_clients,
                      clients, activeConnections, pager>>

Running(id) == id \in DOMAIN ingestions /\ ingestions[id].pc # "done"

Handler(req, pc, existingDevice, validRecords, errors, next, insertedCount, base, code) ==
    [req |-> req, pc |-> pc, existingDevice |-> existingDevice,
     validRecords |-> validRecords, errors |-> errors, next |-> next,
     insertedCount |-> insertedCount, base |-> base, code |-> code]

\* lines 13-38 and 352: the checks of the request, then the SELECT of
\* ensureDeviceExists. base counts the rows stored before this batch
IngestBegin(id, req) ==
    /\ id \notin DOMAIN ingestions
    /\ IF \/ req.deviceId = "" \/ req.dataType = "" \/ ~req.isArray
          \/ req.dataType \notin SupportedTypes
          \/ Len(req.records) > MaxBatchSize
       THEN /\ ingestions' = ingestions @@
                   (id :> Handler(req, "done", FALSE, <<>>, <<>>, 1, 0, Len(health_data), 400))
            /\ last' = Respond("postHealthData", 400, req, NoBody)
       ELSE /\ ingestions' = ingestions @@
                   (id :> Handler(req, "ensure", req.deviceId \in DOMAIN devices,
                                  <<>>, <<>>, 1, 0, Len(health_data), 0))
            /\ UNCHANGED last
    /\ UNCHANGED <<beside_ingestion, devices, health_data>>

\* lines 354-373 and 41-68: the INSERT or the UPDATE the SELECT decided on,
\* then the validation loop. The INSERT throws when the row exists by now
\* (PRIMARY KEY) or the type is not allowed (CHECK), and the handler answers 500
IngestEnsure(id) ==
    /\ Running(id)
    /\ ingestions[id].pc = "ensure"
    /\ LET h == ingestions[id]
           req == h.req
           ensured == ensureDeviceExists(devices, req.deviceId, req.deviceName,
                          IF req.deviceType = "" THEN "wearos" ELSE req.deviceType, now)
           validRecords == validRecordsOf(req.dataType, req.records, now)
           errors == ValidationErrors(req.dataType, req.records, now)
       IN IF (~h.existingDevice /\ req.deviceId \in DOMAIN devices) \/ ~ensured.ok
          THEN /\ ingestions' = [ingestions EXCEPT ![id].pc = "done", ![id].code = 500]
               /\ last' = Respond("postHealthData", 500, req, NoBody)
               /\ UNCHANGED devices
          ELSE /\ devices' = ensured.devices
               /\ ingestions' = [ingestions EXCEPT
                      ![id].pc = IF Len(validRecords) > 0 THEN "insert" ELSE "cursor",
                      ![id].validRecords = validRecords,
                      ![id].errors = errors]
               /\ UNCHANGED last
    /\ UNCHANGED <<beside_ingestion, health_data>>

\* IngestInsert that also moves the cursor to the record it inserts
IngestInsertMovingCursor(id, fails) ==
    /\ Running(id)
    /\ ingestions[id].pc = "insert"
    /\ LET h == ingestions[id]
           rows == insertHealthRecords(h.req.deviceId, h.req.dataType,
                       <<h.validRecords[h.next]>>, IF fails THEN {1} ELSE {}, now)
       IN /\ Len(health_data) + Len(rows) <= MaxRows
          /\ health_data' = health_data \o rows
          /\ devices' = updateDeviceLastSync(devices, h.req.deviceId,
                            h.validRecords[h.next].timestamp)
          /\ ingestions' = [ingestions EXCEPT
                 ![id].pc = IF h.next = Len(h.validRecords) THEN "cursor" ELSE "insert",
                 ![id].next = h.next + 1,
                 ![id].insertedCount = h.insertedCount + Len(rows)]
    /\ UNCHANGED <<beside_ingestion, last>>

\* lines 385-400: one pass of the loop of insertHealthRecords, one INSERT;
\* a failed INSERT is logged and the loop goes on
IngestInsert(id, fails) ==
    /\ Running(id)
    /\ ingestions[id].pc = "insert"
    /\ LET h == ingestions[id]
           rows == insertHealthRecords(h.req.deviceId, h.req.dataType,
                       <<h.validRecords[h.next]>>, IF fails THEN {1} ELSE {}, now)
       IN /\ Len(health_data) + Len(rows) <= MaxRows
          /\ health_data' = health_data \o rows
          /\ ingestions' = [ingestions EXCEPT
                 ![id].pc = IF h.next = Len(h.validRecords) THEN "cursor" ELSE "insert",
                 ![id].next = h.next + 1,
                 ![id].insertedCount = h.insertedCount + Len(rows)]
    /\ UNCHANGED <<beside_ingestion, devices, last>>

\* lines 77-100: the cursor update and the answer
IngestCursor(id) ==
    /\ Running(id)
    /\ ingestions[id].pc = "cursor"
    /\ LET h == ingestions[id]
       IN /\ devices' = updateDeviceLastSync(devices, h.req.deviceId,
                            maxTimestampOf(h.validRecords, now))
          /\ ingestions' = [ingestions EXCEPT ![id].pc = "done", ![id].code = 200]
          /\ last' = Respond("postHealthData", 200, h.req,
                 [total |-> Len(h.req.records), inserted |-> h.insertedCount,
                  errors |-> h.errors])
    /\ UNCHANGED <<beside_ingestion, health_data>>

\* the answer is out and the handler is over
IngestEnd(id) ==
    /\ id \in DOMAIN ingestions
    /\ ingestions[id].pc = "done"
    /\ ingestions' = [j \in DOMAIN ingestions \ {id} |-> ingestions[j]]
    /\ UNCHANGED <<beside_ingestion, devices, health_data, last>>

\* the process dies between two storage calls: what was stored stays
Crash ==
    /\ \E id \in DOMAIN ingestions : Running(id)
    /\ ingestions' = [j \in {k \in DOMAIN ingestions : ~Running(k)} |-> ingestions[j]]
    /\ UNCHANGED <<beside_ingestion, devices, health_data, last>>

(***************************************************************************)
(* The websocket server (app_enhanced.js setupWebSocket). wss_clients is   *)
(* wss.clients, the sockets the library holds until their close event,     *)
(* with the fields the handlers set; clients is this.clients. missed       *)
(* counts, up to 2, the heartbeats a socket saw since it connected or its  *)
(* last pong was handled                                                   *)
(***************************************************************************)
Sockets == {"s1", "s2", "s3"}

beside_websocket == <<now, devices, health_data, sync_sessions, completing,
                      device_settings, ingestions, pager>>

Event(name, ws) == Respond(name, 0, [ws |-> ws], NoBody)

\* wss.on('connection')
Connection(ws) ==
    /\ ws \notin DOMAIN wss_clients
    /\ wss_clients' = wss_clients @@
           (ws :> [isAlive |-> TRUE, readyState |-> "open", missed |-> 0])
    /\ clients' = clients \cup {ws}
    /\ activeConnections' = Cardinality(clients')
    /\ last' = Event("connection", ws)
    /\ UNCHANGED beside_websocket

\* ws.on('pong')
Pong(ws) ==
    /\ ws \in DOMAIN wss_clients
    /\ wss_clients[ws].readyState = "open"
    /\ wss_clients' = [wss_clients EXCEPT ![ws].isAlive = TRUE, ![ws].missed = 0]
    /\ last' = Event("pong", ws)
    /\ UNCHANGED <<beside_websocket, clients, activeConnections>>

\* ws.on('close'): the peer closed, or the socket was terminated or failed;
\* the library drops the socket from wss.clients
Close(ws) ==
    /\ ws \in DOMAIN wss_clients
    /\ wss_clients' = [w \in DOMAIN wss_clients \ {ws} |-> wss_clients[w]]
    /\ clients' = clients \ {ws}
    /\ activeConnections' = Cardinality(clients')
    /\ last' = Event("close", ws)
    /\ UNCHANGED beside_websocket

\* ws.on('error'): the socket is on its way to its close event
Error(ws) ==
    /\ ws \in DOMAIN wss_clients
    /\ wss_clients[ws].readyState = "open"
    /\ wss_clients' = [wss_clients EXCEPT ![ws].readyState = "closing"]
    /\ clients' = clients \ {ws}
    /\ activeConnections' = Cardinality(clients')
    /\ last' = Event("error", ws)
    /\ UNCHANGED beside_websocket

\* Heartbeat that pings every socket and evicts none
HeartbeatPingOnly ==
    /\ wss_clients' = [ws \in DOMAIN wss_clients |->
           [isAlive |-> FALSE, readyState |-> wss_clients[ws].readyState,
            missed |-> Min(wss_clients[ws].missed + 1, 2)]]
    /\ activeConnections' = Cardinality(clients)
    /\ last' = Event("heartbeat", "")
    /\ UNCHANGED <<beside_websocket, clients>>

\* the setInterval callback: a socket whose isAlive is false is dropped from
\* this.clients and terminated, any other has isAlive cleared and is pinged
Heartbeat ==
    /\ wss_clients' = [ws \in DOMAIN wss_clients |->
           IF ~wss_clients[ws].isAlive
           THEN [isAlive |-> FALSE, readyState |-> "closing",
                 missed |-> Min(wss_clients[ws].missed + 1, 2)]
           ELSE [isAlive |-> FALSE, readyState |-> wss_clients[ws].readyState,
                 missed |-> Min(wss_clients[ws].missed + 1, 2)]]
    /\ clients' = clients \ {ws \in DOMAIN wss_clients : ~wss_clients[ws].isAlive}
    /\ activeConnections' = Cardinality(clients')
    /\ last' = Event("heartbeat", "")
    /\ UNCHANGED beside_websocket

(***************************************************************************)
(* Health goals (analytics routes): one setting per device and type        *)
(***************************************************************************)
DefaultDailySteps == 10000

\* a goals object, told apart by its dailySteps
JsObject(n) == [kind |-> "object", n |-> n]

DefaultGoals == JsObject(DefaultDailySteps)

\* JSON.stringify and JSON.parse of a goals object: the text is the list of
\* its keys and values
JsonStringify(goals) == <<"dailySteps", goals.n>>

JsonParse(text) == JsObject(text[2])

GoalRows(settings, deviceId) ==
    {i \in DOMAIN settings : /\ settings[i].device_id = deviceId
                             /\ settings[i].setting_type = "health_goals"}

\* saveHealthGoals with a plain INSERT and no UNIQUE(device_id, setting_type)
saveHealthGoalsInserting(settings, deviceId, goals, clock) ==
    Append(settings, [device_id |-> deviceId, setting_type |-> "health_goals",
                      setting_value |-> JsonStringify(goals), updated_at |-> clock])

\* INSERT OR REPLACE under UNIQUE(device_id, setting_type): the row in
\* conflict is deleted and the new row is inserted
saveHealthGoals(settings, deviceId, goals, clock) ==
    LET kept(row) == ~(row.device_id = deviceId /\ row.setting_type = "health_goals")
    IN  Append(SelectSeq(settings, kept),
               [device_id |-> deviceId, setting_type |-> "health_goals",
                setting_value |-> JsonStringify(goals), updated_at |-> clock])

\* getRow answers the first row of the result, undefined when there is none
getHealthGoals(settings, deviceId) ==
    IF GoalRows(settings, deviceId) = {}
    THEN DefaultGoals
    ELSE LET rows == GoalRows(settings, deviceId)
             first == CHOOSE i \in rows : \A j \in rows : i <= j
         IN  JsonParse(settings[first].setting_value)

\* POST /goals/:deviceId; the insert fails on the foreign key when the device
\* has no row
SaveGoals(deviceId, goals) ==
    IF goals.kind # "object"
    THEN /\ last' = Respond("saveGoals", 400, [deviceId |-> deviceId, goals |-> goals], NoBody)
         /\ UNCHANGED <<other_vars, now, devices, health_data, sync_sessions, completing>>
    ELSE IF deviceId \notin DOMAIN devices
    THEN /\ last' = Respond("saveGoals", 500, [deviceId |-> deviceId, goals |-> goals], NoBody)
         /\ UNCHANGED <<other_vars, now, devices, health_data, sync_sessions, completing>>
    ELSE /\ device_settings' = saveHealthGoals(device_settings, deviceId, goals, now)
         /\ last' = Respond("saveGoals", 200, [deviceId |-> deviceId, goals |-> goals],
                            [deviceId |-> deviceId, goals |-> goals])
         /\ UNCHANGED <<now, devices, health_data, sync_sessions, completing,
                        ingestions, wss_clients, clients, activeConnections, pager>>

\* GET /goals/:deviceId
GetGoals(deviceId) ==
    /\ last' = Respond("getGoals", 200, [deviceId |-> deviceId],
                       [deviceId |-> deviceId,
                        goals |-> getHealthGoals(device_settings, deviceId)])
    /\ UNCHANGED <<other_vars, now, devices, health_data, sync_sessions, completing>>

\* the wall clock moves on between requests
Tick ==
    /\ now < MaxNow
    /\ now' = now + 1
    /\ UNCHANGED <<other_vars, devices, health_data, sync_sessions, completing, last>>

Init ==
    /\ now = StartNow
    /\ devices = <<>>
    /\ health_data = <<>>
    /\ sync_sessions = <<>>
    /\ completing = {}
    /\ last = Respond("none", 0, NoBody, NoBody)
    /\ device_settings = <<>>
    /\ ingestions = <<>>
    /\ wss_clients = <<>>
    /\ clients = {}
    /\ activeConnections = 0
    /\ pager = [received |-> <<>>, offset |-> 0, done |-> FALSE,
                snapshot |-> <<>>, stable |-> TRUE]

(***************************************************************************)
(* Requests the clients send                                               *)
(***************************************************************************)
DeviceIds == {"w1", "p1"}

Rec(t, v) == [timestamp |-> JsNum(t), value |-> JsNum(v), metadata |-> NoMetadata]

\* the arrays of at most n elements of R
Arrays(R, n) == UNION {[1..k -> R] : k \in 0..n}

IngestRequest(deviceId, dataType, deviceName, deviceType, records) ==
    [deviceId |-> deviceId, dataType |-> dataType, deviceName |-> deviceName,
     deviceType |-> deviceType, isArray |-> TRUE, records |-> records]

\* heart-rate batches of fresh records, one of them out of range
Records(clock) == {Rec(clock - 1, 72), Rec(clock, 75), Rec(clock, 1000)}

IngestRequests(clock) ==
    {IngestRequest(d, "heart_rate", "", "", records) :
        d \in DeviceIds, records \in Arrays(Records(clock), MaxBatch)}
    \cup {IngestRequest("", "heart_rate", "", "", <<>>),
          IngestRequest("w1", "mood", "", "", <<>>),
          IngestRequest("w1", "steps", "Watch", "tizen", <<>>),
          [IngestRequest("w1", "heart_rate", "", "", <<>>) EXCEPT !.isArray = FALSE]}

IosItem(t, v) == [timestamp |-> t, value |-> JsNum(v)]

IosBatch(hasId, heartRateData, stepCountData) ==
    [hasId |-> hasId, hasTimestamp |-> TRUE, heartRateData |-> heartRateData,
     stepCountData |-> stepCountData, sleepData |-> <<>>, workoutData |-> <<>>]

NoneFailed == [heartRate |-> {}, stepCount |-> {}, sleep |-> {}, workout |-> {}]

IosBatches(clock) ==
    {IosBatch(TRUE, <<IosItem(JsNum(clock), 80)>>, <<>>),
     IosBatch(TRUE, <<IosItem(JsNum(clock - MaxRecordAge - 1), 80)>>, <<>>),
     IosBatch(TRUE, <<>>, <<IosItem(JsUndef, 500)>>),
     IosBatch(FALSE, <<>>, <<>>)}

RegisterRequests ==
    {[deviceId |-> d, deviceName |-> n, deviceType |-> t, metadata |-> ""] :
        d \in DeviceIds, n \in {"Watch"}, t \in {"wearos", "ios"}}
    \cup {[deviceId |-> "w1", deviceName |-> "Watch", deviceType |-> "tizen", metadata |-> ""]}

CursorValues(clock) == {JsNum(clock - 1), JsNum(clock), JsNum(0), JsText}

CompleteRequests ==
    [sessionId : 0..(MaxSessions + 1), recordsSynced : {0, 5}, errorMessage : {"", "timeout"}]

Query(since, until, dataType, limit, offset) ==
    [since |-> since, until |-> until, dataType |-> dataType, limit |-> limit,
     offset |-> offset]

Queries(clock) ==
    {Query(since, JsUndef, "", JsNum(1000), JsNum(0)) : since \in {JsUndef, JsNum(0)}}

(***************************************************************************)
(* The server: every request handler, and the clock                        *)
(***************************************************************************)
Ingest ==
    \E req \in IngestRequests(now), failed \in SUBSET (1..MaxBatch) :
        PostHealthData(req, failed)

IosUpload == \E batch \in IosBatches(now) : PostIosData(batch, NoneFailed)

RegisterDevice == \E req \in RegisterRequests : Register(req)

UnregisterDevice == \E d \in DeviceIds : Unregister(d)

PutTimestamp == \E d \in DeviceIds, t \in CursorValues(now) : UpdateTimestamp(d, t)

Start == \E d \in DeviceIds \cup {""}, syncType \in {"http", "wifi"} : StartSession(d, syncType)

Complete == \E req \in CompleteRequests : CompleteCheck(req)

CompleteWrite == \E req \in completing : CompleteUpdate(req)

Read == \E d \in DeviceIds, q \in Queries(now) : SyncData(d, q)

Next ==
    \/ Tick
    \/ Ingest
    \/ IosUpload
    \/ RegisterDevice
    \/ UnregisterDevice
    \/ PutTimestamp
    \/ Start
    \/ Complete
    \/ CompleteWrite
    \/ Read

Spec == Init /\ [][Next]_vars

(***************************************************************************)
(* The cursor: the operations that write last_sync_timestamp               *)
(***************************************************************************)
CursorIngest ==
    \E d \in DeviceIds, records \in Arrays(Records(now), MaxBatch), failed \in {{}, {1}} :
        PostHealthData(IngestRequest(d, "heart_rate", "", "", records), failed)

RegisterPhone ==
    Register([metadata |-> "", deviceType |-> "ios", deviceId |-> "p1",
              deviceName |-> "Phone"])

NextCursor ==
    \/ Tick
    \/ CursorIngest
    \/ RegisterPhone
    \/ PutTimestamp

SpecCursor == Init /\ [][NextCursor]_vars

(***************************************************************************)
(* The session tracker: one registered device, one unknown device, and     *)
(* complete requests that overlap                                          *)
(***************************************************************************)
SessionCompleteRequests ==
    [sessionId : 0..(MaxSessions + 1), recordsSynced : {5}, errorMessage : {"", "timeout"}]

RegisterWatch ==
    Register([metadata |-> "", deviceType |-> "wearos", deviceId |-> "w1",
              deviceName |-> "Watch"])

SessionStart == \E d \in {"w1", "p1"}, syncType \in {"http", "wifi"} : StartSession(d, syncType)

SessionComplete == \E req \in SessionCompleteRequests : CompleteCheck(req)

NextSession ==
    \/ Tick
    \/ RegisterWatch
    \/ SessionStart
    \/ SessionComplete
    \/ CompleteWrite

SpecSession == Init /\ [][NextSession]_vars

(***************************************************************************)
(* One ingestion call: the first batch the server receives, for a device   *)
(* that is registered or not, with every kind of record                    *)
(***************************************************************************)
Timestamps(clock) ==
    {JsUndef, JsText, JsNum(0), JsNum(-1),
     JsNum(clock - MaxRecordAge - 1), JsNum(clock - MaxRecordAge), JsNum(clock - 1),
     JsNum(clock), JsNum(clock + GracePeriod), JsNum(clock + GracePeriod + 1)}

Values == {JsUndef, JsText, JsNum(0), JsNum(29), JsNum(30), JsNum(72), JsNum(220), JsNum(221)}

Metadatas ==
    {NoMetadata,
     [systolic |-> JsNum(120), diastolic |-> JsNum(80), coordinates |-> "valid"],
     [systolic |-> JsNum(300), diastolic |-> JsNum(80), coordinates |-> "invalid"]}

\* every record alone, under every data type
SingleRecords(clock) ==
    {<<[timestamp |-> t, value |-> v, metadata |-> m]>> :
        t \in Timestamps(clock), v \in Values, m \in Metadatas}

\* heart-rate batches of several records: fresh and stale, in and out of range
BatchRecords(clock) ==
    {Rec(clock - MaxRecordAge - 1, 72), Rec(clock - 1, 72), Rec(clock, 75),
     Rec(clock, 1000), Rec(clock + GracePeriod, 72), Rec(clock + GracePeriod + 1, 72)}

FirstIngest ==
    /\ health_data = <<>>
    /\ last.op # "postHealthData"
    /\ \/ \E dataType \in SupportedTypes \cup {"mood"}, records \in SingleRecords(now),
             failed \in {{}, {1}} :
               PostHealthData(IngestRequest("w1", dataType, "", "", records), failed)
       \/ \E records \in Arrays(BatchRecords(now), MaxBatch), failed \in SUBSET (1..MaxBatch) :
               PostHealthData(IngestRequest("w1", "heart_rate", "", "", records), failed)

NextIngestion ==
    \/ Tick
    \/ RegisterWatch
    \/ FirstIngest

SpecIngestion == Init /\ [][NextIngestion]_vars

(***************************************************************************)
(* The record store and the sync read: both write paths fill the store,    *)
(* any device reads it with any query                                      *)
(***************************************************************************)
StoreIngest ==
    \E d \in DeviceIds, records \in Arrays({Rec(now - 1, 72), Rec(now, 75)}, MaxBatch) :
        PostHealthData(IngestRequest(d, "heart_rate", "", "", records), {})

\* a well-formed query: every combination of watermark, upper limit, type
\* filter, page size and offset
GoodQueries(clock) ==
    {Query(since, until, dataType, limit, offset) :
        since \in {JsUndef, JsNum(0), JsNum(clock - 1)},
        until \in {JsUndef, JsNum(clock - 1)},
        dataType \in {"", "heart_rate"},
        limit \in {JsNum(1000), JsNum(1)},
        offset \in {JsNum(0), JsNum(1)}}

\* a query with one parameter out of its domain
BadQueries(clock) ==
    {Query(JsText, JsUndef, "", JsNum(1000), JsNum(0)),
     Query(JsNum(-1), JsUndef, "", JsNum(1000), JsNum(0)),
     Query(JsUndef, JsText, "", JsNum(1000), JsNum(0)),
     Query(JsUndef, JsUndef, "mood", JsNum(1000), JsNum(0)),
     Query(JsUndef, JsUndef, "", JsNum(0), JsNum(0)),
     Query(JsUndef, JsUndef, "", JsNum(MaxBatchSize + 1), JsNum(0)),
     Query(JsUndef, JsUndef, "", JsText, JsNum(0)),
     Query(JsUndef, JsUndef, "", JsNum(1000), JsNum(-1))}

\* a read changes nothing the next request depends on, so the reads that
\* follow a read reach no state that a read after a write does not reach
StoreRead ==
    /\ last.op # "syncData"
    /\ \E d \in DeviceIds \cup {IosDeviceId}, q \in GoodQueries(now) \cup BadQueries(now) :
           SyncData(d, q)

NextStore ==
    \/ StoreIngest
    \/ IosUpload
    \/ RegisterPhone
    \/ StoreRead

SpecStore == Init /\ [][NextStore]_vars

(***************************************************************************)
(* The exchange between a writer A and a reader B that also writes: A and  *)
(* B ingest, B reads with its stored cursor as the watermark and a page    *)
(* that holds every match. B keeps polling: its read is weakly fair.       *)
(***************************************************************************)
DeviceA == "w1"
DeviceB == "p1"

CursorQuery == Query(JsUndef, JsUndef, "", JsNum(MaxBatchSize), JsNum(0))

ExchangeIngest ==
    \E d \in {DeviceA, DeviceB}, records \in Arrays({Rec(now - 1, 72), Rec(now, 75)}, MaxBatch) :
        PostHealthData(IngestRequest(d, "heart_rate", "", "", records), {})

ExchangeRead == SyncData(DeviceB, CursorQuery)

NextExchange ==
    \/ Tick
    \/ ExchangeIngest
    \/ ExchangeRead

SpecExchange == Init /\ [][NextExchange]_vars /\ WF_vars(ExchangeRead)

(***************************************************************************)
(* Partial success: the first heart-rate batch of a watch, fresh records   *)
(* in and out of range at every position, every INSERT succeeding          *)
(***************************************************************************)
PartialRecords(clock) ==
    {Rec(clock - 1, 72), Rec(clock, 75), Rec(clock, 1000), Rec(clock - 2, 29)}

PartialIngest ==
    /\ health_data = <<>>
    /\ last.op # "postHealthData"
    /\ \E records \in Arrays(PartialRecords(now), MaxPartialBatch) :
           PostHealthData(IngestRequest("w1", "heart_rate", "", "", records), {})

NextPartial ==
    \/ Tick
    \/ RegisterWatch
    \/ PartialIngest

SpecPartial == Init /\ [][NextPartial]_vars

(***************************************************************************)
(* The device registry: devices are created by a touch or by register,     *)
(* renamed, deactivated and touched again; some requests are malformed     *)
(***************************************************************************)
RegistryDevices == {"w1", IosDeviceId}

RegistryRegister ==
    \E d \in RegistryDevices, t \in {"wearos", "tizen"} :
        /\ t = "tizen" => last.code # 400
        /\ Register([metadata |-> "m1", deviceType |-> t, deviceId |-> d,
                     deviceName |-> "Renamed"])

RegistryUnregister == \E d \in RegistryDevices : Unregister(d)

\* the phone uploads one heart-rate sample through the iOS endpoint
RegistryUpload ==
    PostIosData(IosBatch(TRUE, <<IosItem(JsNum(now), 80)>>, <<>>), NoneFailed)

\* requests the handler refuses before it reaches the store
RejectedRequests(clock) ==
    {IngestRequest("", "heart_rate", "", "", <<Rec(clock, 72)>>),
     IngestRequest("w1", "", "", "", <<Rec(clock, 72)>>),
     [IngestRequest("w1", "heart_rate", "", "", <<>>) EXCEPT !.isArray = FALSE],
     IngestRequest("w1", "mood", "", "", <<Rec(clock, 72)>>),
     IngestRequest("w1", "heart_rate", "", "",
                   [i \in 1..(MaxBatchSize + 1) |-> Rec(clock, 72)])}

\* the watch ingests under another name and type than it may be registered with
RegistryIngest ==
    \E records \in {<<>>, <<Rec(now, 72)>>} :
        PostHealthData(IngestRequest("w1", "heart_rate", "Other", "ios", records), {})

\* a refused request changes nothing the next request depends on, so it is
\* sent after a request that was not refused
RegistryRejected ==
    /\ last.code # 400
    /\ \E req \in RejectedRequests(now) : PostHealthData(req, {})

RegistryRead ==
    /\ last.op # "syncData"
    /\ \E d \in {"w1", "p1"} : SyncData(d, CursorQuery)

NextRegistry ==
    \/ Tick
    \/ RegistryRegister
    \/ RegistryUnregister
    \/ RegistryIngest
    \/ RegistryRejected
    \/ RegistryUpload
    \/ RegistryRead

SpecRegistry == Init /\ [][NextRegistry]_vars

(***************************************************************************)
(* The watermark of the sync read: the watch reads what the phone uploaded *)
(* through the iOS endpoint, with an explicit since or its stored cursor   *)
(***************************************************************************)
\* the iOS endpoint stores the timestamp the item carries, whatever it is
WatermarkUpload ==
    \E t \in {JsNum(-1), JsNum(now - 1), JsNum(now)} :
        PostIosData(IosBatch(TRUE, <<IosItem(t, 80)>>, <<>>), NoneFailed)

\* the watch ingests: its cursor becomes the timestamp of the record
WatermarkIngest ==
    PostHealthData(IngestRequest("w1", "heart_rate", "", "", <<Rec(now - 1, 72)>>), {})

WatermarkQueries(clock) ==
    {Query(since, until, "", limit, offset) :
        since \in {JsUndef, JsNum(0), JsNum(clock - 1), JsNum(clock)},
        until \in {JsUndef, JsNum(clock)},
        limit \in {JsNum(1000), JsNum(1)},
        offset \in {JsNum(0), JsNum(1)}}

WatermarkRead ==
    /\ last.op # "syncData"
    /\ \E q \in WatermarkQueries(now) : SyncData("w1", q)

NextWatermark ==
    \/ Tick
    \/ RegisterWatch
    \/ WatermarkUpload
    \/ WatermarkIngest
    \/ WatermarkRead

SpecWatermark == Init /\ [][NextWatermark]_vars

(***************************************************************************)
(* The lifetime of a stored record: two devices ingest, the phone uploads, *)
(* every other operation runs on the same store, and the bulk delete is    *)
(* served by a process started in any environment                          *)
(***************************************************************************)
Environments == {"development", "production", "test", "staging"}

PurgeBatches(clock) ==
    {IngestRequest("w1", "heart_rate", "", "", <<Rec(clock - 1, 72)>>),
     IngestRequest("p1", "steps", "", "", <<Rec(clock, 500)>>)}

PurgeIngest == \E req \in PurgeBatches(now) : PostHealthData(req, {})

PurgeDelete ==
    \E environment \in Environments, deviceId \in {"", "w1"}, dataType \in {"", "steps"},
       before \in {JsUndef, JsNum(now), JsText} :
        DeleteHealthData(environment, deviceId, dataType, before)

PurgeUnregister == Unregister("w1")

PurgeCursor == UpdateTimestamp("w1", JsNum(now))

PurgeStart == StartSession("w1", "http")

PurgeComplete ==
    CompleteCheck([sessionId |-> 1, recordsSynced |-> 1, errorMessage |-> ""])

PurgeRead ==
    /\ last.op # "syncData"
    /\ SyncData("p1", CursorQuery)

PurgeStatus ==
    /\ last.op # "status"
    /\ GetStatus("w1")

NextPurge ==
    \/ PurgeIngest
    \/ RegistryUpload
    \/ PurgeDelete
    \/ PurgeUnregister
    \/ PurgeCursor
    \/ PurgeStart
    \/ PurgeComplete
    \/ CompleteWrite
    \/ PurgeRead
    \/ PurgeStatus

SpecPurge == Init /\ [][NextPurge]_vars

(***************************************************************************)
(* Deactivation: the watch ingests and runs sessions, is unregistered and  *)
(* comes back; the phone reads everything, the status of the watch is read *)
(***************************************************************************)
DeactivateIngest ==
    PostHealthData(IngestRequest("w1", "heart_rate", "", "", <<Rec(now - 1, 72)>>), {})

\* the phone reads from the beginning
DeactivateRead ==
    /\ last.op # "syncData"
    /\ SyncData("p1", Query(JsNum(0), JsUndef, "", JsNum(MaxBatchSize), JsNum(0)))

NextDeactivate ==
    \/ RegisterPhone
    \/ RegisterWatch
    \/ DeactivateIngest
    \/ PurgeStart
    \/ PurgeComplete
    \/ CompleteWrite
    \/ PurgeUnregister
    \/ DeactivateRead
    \/ PurgeStatus

SpecDeactivate == Init /\ [][NextDeactivate]_vars

(***************************************************************************)
(* Resubmission: the watch sends heart-rate batches, the same one again or *)
(* another one, while the clock moves on                                   *)
(***************************************************************************)
DuplicateIngest ==
    \E records \in Arrays({Rec(now - 1, 72), Rec(now, 75), Rec(now, 1000)}, MaxBatch) :
        PostHealthData(IngestRequest("w1", "heart_rate", "", "", records), {})

NextDuplicate ==
    \/ Tick
    \/ DuplicateIngest

SpecDuplicate == Init /\ [][NextDuplicate]_vars

(***************************************************************************)
(* Names the server does not know: the watch is registered, ingests and    *)
(* starts sessions; requests name the watch, a phone that never registered *)
(* or a session that was never started, some of them malformed             *)
(***************************************************************************)
NamedDevices == {"w1", "p1"}

NamedStart ==
    \E d \in NamedDevices, syncType \in {"http", "bluetooth", "wifi"} : StartSession(d, syncType)

NamedRead ==
    /\ last.op # "syncData"
    /\ \E d \in NamedDevices,
          q \in {CursorQuery, Query(JsNum(0), JsUndef, "mood", JsNum(1000), JsNum(0)),
                 Query(JsText, JsUndef, "", JsNum(1000), JsNum(0))} :
           SyncData(d, q)

NamedCursor ==
    \E d \in NamedDevices, t \in {JsNum(now), JsNum(0), JsText} : UpdateTimestamp(d, t)

NamedStatus == \E d \in NamedDevices : GetStatus(d)

NamedUnregister == \E d \in NamedDevices : Unregister(d)

NamedComplete ==
    \E sessionId \in 0..(MaxSessions + 1) :
        CompleteCheck([sessionId |-> sessionId, recordsSynced |-> 1, errorMessage |-> ""])

NextNamed ==
    \/ RegisterWatch
    \/ DeactivateIngest
    \/ NamedStart
    \/ NamedRead
    \/ NamedCursor
    \/ NamedStatus
    \/ NamedUnregister
    \/ NamedComplete
    \/ CompleteWrite

SpecNamed == Init /\ [][NextNamed]_vars

(***************************************************************************)
(* A reader that keeps its own watermark: the watch reads with no since    *)
(* or since 0 while it has received nothing, and then with the largest     *)
(* timestamp it has received; the phone uploads and ingests in between     *)
(***************************************************************************)
Reader == "w1"

\* the largest timestamp the reader knows after the answer in last
MaxReceived ==
    MaxOf({last.body.data[j].timestamp : j \in 1..Len(last.body.data)}
          \cup (IF last.req.q.since.kind = "number" THEN {last.req.q.since.n} ELSE {}))

\* last is an answer that gave the reader records
ReaderHasReceived ==
    /\ last.op = "syncData"
    /\ last.code = 200
    /\ last.req.deviceId = Reader
    /\ Len(last.body.data) > 0

\* the phone uploads a sample stamped with an ISO date or with a number
ReaderUpload ==
    \E t \in {JsDate(0), JsDate(now), JsNum(now - 1)} :
        PostIosData(IosBatch(TRUE, <<IosItem(t, 80)>>, <<>>), NoneFailed)

ReaderIngest ==
    PostHealthData(IngestRequest("p1", "heart_rate", "", "", <<Rec(now, 75)>>), {})

\* the reader's watermark is what its last answer tells it; a reader whose
\* last answer was followed by another device's request starts over
ReaderRead ==
    \E limit \in {JsNum(MaxBatchSize), JsNum(1)} :
        IF ReaderHasReceived
        THEN SyncData(Reader, Query(JsNum(MaxReceived), JsUndef, "", limit, JsNum(0)))
        ELSE \E since \in {JsUndef, JsNum(0)} :
                 SyncData(Reader, Query(since, JsUndef, "", limit, JsNum(0)))

NextReader ==
    \/ Tick
    \/ RegisterWatch
    \/ ReaderUpload
    \/ ReaderIngest
    \/ ReaderRead

SpecReader == Init /\ [][NextReader]_vars

(***************************************************************************)
(* The parameters of the sync read: the phone has ingested, the watch      *)
(* reads with every parameter in and out of its domain                     *)
(***************************************************************************)
ParamIngest ==
    \E records \in Arrays({Rec(now - 1, 72), Rec(now, 75)}, MaxBatch) :
        PostHealthData(IngestRequest("p1", "heart_rate", "", "", records), {})

ParamQueries(clock) ==
    {Query(since, until, "", limit, offset) :
        since \in {JsUndef, JsNum(0), JsNum(clock - 1), JsNum(-1), JsText},
        until \in {JsUndef, JsNum(clock), JsNum(-1), JsText},
        limit \in {JsNum(0), JsNum(1), JsNum(MaxBatchSize), JsNum(MaxBatchSize + 1), JsText},
        offset \in {JsNum(0), JsNum(1), JsNum(-1), JsText}}

ParamRead ==
    /\ last.op # "syncData"
    /\ \E q \in ParamQueries(now) : SyncData("w1", q)

NextParam ==
    \/ RegisterWatch
    \/ ParamIngest
    \/ ParamRead

SpecParam == Init /\ [][NextParam]_vars

(***************************************************************************)
(* Device types: devices register and ingest under supported and           *)
(* unsupported types, the phone uploads, the watch is unregistered         *)
(***************************************************************************)
SentTypes == {"", "wearos", "ios", "tizen"}

TypeRegister ==
    \E d \in {"w1", "p1"}, t \in SentTypes :
        Register([metadata |-> "", deviceType |-> t, deviceId |-> d, deviceName |-> "Named"])

TypeIngest ==
    \E d \in {"w1", "p1"}, t \in SentTypes, records \in {<<>>, <<Rec(now, 72)>>} :
        PostHealthData(IngestRequest(d, "heart_rate", "", t, records), {})

NextType ==
    \/ TypeRegister
    \/ TypeIngest
    \/ RegistryUpload
    \/ PurgeUnregister

SpecType == Init /\ [][NextType]_vars

(***************************************************************************)
(* The reference client (HealthDataSyncManager.swift): the phone reads     *)
(* with since equal to the timestamp it keeps and then keeps the           *)
(* lastSyncTimestamp of the answer; the watch ingests in between           *)
(***************************************************************************)
Client == "p1"

\* last is a 200 answer to the client's read
ClientAnswered ==
    /\ last.op = "syncData"
    /\ last.code = 200
    /\ last.req.deviceId = Client

\* getLastSyncTimestamp: what updateLastSyncTimestamp stored after the last
\* 200 answer, 0 while nothing was stored
ClientTimestamp == IF ClientAnswered THEN last.body.lastSyncTimestamp ELSE 0

ClientIngest ==
    \E t \in {now - 1, now} :
        PostHealthData(IngestRequest("w1", "heart_rate", "", "", <<Rec(t, 72)>>), {})

\* syncDataFromServer
ClientSync ==
    SyncData(Client, Query(JsNum(ClientTimestamp), JsUndef, "", JsNum(MaxBatchSize), JsNum(0)))

NextClient ==
    \/ Tick
    \/ RegisterPhone
    \/ ClientIngest
    \/ ClientSync

SpecClient == Init /\ [][NextClient]_vars

(***************************************************************************)
(* Health goals: the watch is registered and the phone is not; goals are   *)
(* saved and read for both                                                 *)
(***************************************************************************)
SentGoals == {JsUndef, JsText, JsObject(8000), JsObject(12000)}

GoalsSave == \E d \in DeviceIds, goals \in SentGoals : SaveGoals(d, goals)

GoalsRead == \E d \in DeviceIds : GetGoals(d)

NextGoals ==
    \/ Tick
    \/ RegisterWatch
    \/ GoalsSave
    \/ GoalsRead

SpecGoals == Init /\ [][NextGoals]_vars

(***************************************************************************)
(* A client that pages through a sync read: the watch reads with a fixed   *)
(* since and limit at offsets 0, limit, 2*limit, ... and gathers the pages *)
(* until hasMore is false; the phone ingests and rows are deleted          *)
(***************************************************************************)
PagerLimit == 1

PagerSince == JsNum(StartNow)

\* last is the answer to the read at the pager's offset, not yet gathered
PagerAnswered ==
    /\ ~pager.done
    /\ last.op = "syncData"
    /\ last.code = 200
    /\ last.req.deviceId = Reader
    /\ last.req.q.offset = JsNum(pager.offset)

PagerRead ==
    /\ ~pager.done
    /\ ~PagerAnswered
    /\ SyncData(Reader, Query(PagerSince, JsUndef, "", JsNum(PagerLimit), JsNum(pager.offset)))

\* the client takes the page in: the store is as the read saw it. snapshot
\* and stable tell whether every page so far was read from the same rows
PagerStore ==
    /\ PagerAnswered
    /\ pager' = [received |-> pager.received \o last.body.data,
                 offset |-> pager.offset + last.body.pagination.limit,
                 done |-> ~last.body.pagination.hasMore,
                 snapshot |-> IF pager.offset = 0 THEN health_data ELSE pager.snapshot,
                 stable |-> pager.offset = 0 \/ (pager.stable /\ health_data = pager.snapshot)]
    /\ UNCHANGED <<now, devices, health_data, sync_sessions, completing, last,
                   device_settings, ingestions, wss_clients, clients, activeConnections>>

PagerIngest ==
    /\ ~PagerAnswered
    /\ \E dataType \in {"heart_rate", "steps"} :
          PostHealthData(IngestRequest("p1", dataType, "", "", <<Rec(now, 72)>>), {})

PagerDelete ==
    /\ ~PagerAnswered
    /\ \E dataType \in {"heart_rate", "steps"} :
          DeleteHealthData("development", "", dataType, JsUndef)

PagerRegister ==
    /\ Reader \notin DOMAIN devices
    /\ RegisterWatch

NextPager ==
    \/ Tick
    \/ PagerRegister
    \/ PagerIngest
    \/ PagerDelete
    \/ PagerRead
    \/ PagerStore

SpecPager == Init /\ [][NextPager]_vars

(***************************************************************************)
(* One ingestion at a time, step by step: the watch is registered or not,  *)
(* the batch has up to MaxBatch records, an insert may fail, the process   *)
(* may die                                                                 *)
(***************************************************************************)
BatchBegin ==
    /\ DOMAIN ingestions = {}
    /\ \E records \in Arrays({Rec(now - 1, 72), Rec(now, 75), Rec(now, 1000)}, MaxBatch) :
          IngestBegin("h1", IngestRequest("w1", "heart_rate", "", "", records))

BatchEnsure == IngestEnsure("h1")

BatchInsert == \E fails \in BOOLEAN : IngestInsert("h1", fails)

BatchCursor == IngestCursor("h1")

BatchEnd == IngestEnd("h1")

NextBatch ==
    \/ Tick
    \/ BatchBegin
    \/ BatchEnsure
    \/ BatchInsert
    \/ BatchCursor
    \/ BatchEnd
    \/ Crash

SpecBatch == Init /\ [][NextBatch]_vars

(***************************************************************************)
(* Two ingestions for the watch, which no one registered, run at the same  *)
(* time: each awaits its storage calls while the other goes on             *)
(***************************************************************************)
RaceBegin ==
    \E id \in HandlerIds, v \in {72, 1000} :
        IngestBegin(id, IngestRequest("w1", "heart_rate", "", "", <<Rec(now, v)>>))

RaceEnsure == \E id \in HandlerIds : IngestEnsure(id)

RaceInsert == \E id \in HandlerIds : IngestInsert(id, FALSE)

RaceCursor == \E id \in HandlerIds : IngestCursor(id)

RaceEnd == \E id \in HandlerIds : IngestEnd(id)

NextRace ==
    \/ Tick
    \/ RaceBegin
    \/ RaceEnsure
    \/ RaceInsert
    \/ RaceCursor
    \/ RaceEnd

SpecRace == Init /\ [][NextRace]_vars

(***************************************************************************)
(* Three sockets connect, answer pings or not, fail and close, while the   *)
(* heartbeat timer fires                                                   *)
(***************************************************************************)
SocketConnects == \E ws \in Sockets : Connection(ws)

SocketPongs == \E ws \in Sockets : Pong(ws)

SocketCloses == \E ws \in Sockets : Close(ws)

SocketFails == \E ws \in Sockets : Error(ws)

NextWebSocket ==
    \/ SocketConnects
    \/ SocketPongs
    \/ SocketCloses
    \/ SocketFails
    \/ Heartbeat

SpecWebSocket == Init /\ [][NextWebSocket]_vars

(***************************************************************************)
(* Claims about the session tracker (SpecSession)                          *)
(***************************************************************************)
Terminal(session) == session.status \in {"completed", "failed"}

\* C5: a session's status only moves from started to completed or failed, and
\* a terminal session never changes again, also when complete requests on the
\* same session overlap
SessionTerminalImmutable ==
    [][\A s \in DOMAIN sync_sessions :
        /\ sync_sessions'[s].status # sync_sessions[s].status
              => sync_sessions[s].status = "started" /\ Terminal(sync_sessions'[s])
        /\ Terminal(sync_sessions[s]) => sync_sessions'[s] = sync_sessions[s]]_vars

\* C6: a complete call that arrives when the session is already terminal is
\* answered with the state error and writes nothing: the session keeps what
\* the first call wrote
SecondCompleteRejected ==
    [][\A s \in DOMAIN sync_sessions :
        (Terminal(sync_sessions[s]) /\ last'.op = "complete" /\ last'.req.sessionId = s)
            => /\ last'.code = 400
               /\ last'.body = [error |-> "Cannot complete session with status"]
               /\ sync_sessions' = sync_sessions
               /\ completing' = completing]_vars

SecondCompleteWitness ==
    /\ last.op = "complete"
    /\ last.code = 400
    /\ last.req.sessionId \in DOMAIN sync_sessions
    /\ Terminal(sync_sessions[last.req.sessionId])
    /\ sync_sessions[last.req.sessionId].end_time # <<>>

\* C27: start creates a session of the device with status started and no
\* end time and answers with its id; the write of complete sets the status
\* to completed when the request carries no error and to failed when it
\* carries one, stores the request's recordsSynced and sets the end time to
\* the time of the write; no other session changes.
StartAndCompleteWrite ==
    [][/\ (last' # last /\ last'.op = "start" /\ last'.code = 200) =>
            /\ Len(sync_sessions') = Len(sync_sessions) + 1
            /\ SubSeq(sync_sessions', 1, Len(sync_sessions)) = sync_sessions
            /\ last'.body.sessionId = Len(sync_sessions')
            /\ sync_sessions'[Len(sync_sessions')].device_id = last'.req.deviceId
            /\ sync_sessions'[Len(sync_sessions')].status = "started"
            /\ sync_sessions'[Len(sync_sessions')].end_time = <<>>
       /\ (last' # last /\ last'.op = "completeUpdate") =>
            /\ DOMAIN sync_sessions' = DOMAIN sync_sessions
            /\ \A s \in DOMAIN sync_sessions :
                  IF s # last'.req.sessionId
                  THEN sync_sessions'[s] = sync_sessions[s]
                  ELSE /\ sync_sessions'[s].status =
                             IF last'.req.errorMessage = "" THEN "completed" ELSE "failed"
                       /\ sync_sessions'[s].records_synced = last'.req.recordsSynced
                       /\ sync_sessions'[s].end_time = <<now'>>
                       /\ sync_sessions'[s].device_id = sync_sessions[s].device_id
                       /\ sync_sessions'[s].start_time = sync_sessions[s].start_time]_vars

\* a started session was completed with an error a tick after its start
FailedSessionWitness ==
    /\ last.op = "completeUpdate"
    /\ last.req.errorMessage = "timeout"
    /\ sync_sessions[last.req.sessionId].status = "failed"
    /\ sync_sessions[last.req.sessionId].records_synced = 5
    /\ sync_sessions[last.req.sessionId].end_time = <<now>>
    /\ sync_sessions[last.req.sessionId].start_time < now

\* C28: start is not gated by other sessions: for a registered device and a
\* supported sync type it answers 200 and adds a started session, whatever
\* sessions of the device are still in status started.
StartNotGated ==
    [][(/\ last' # last
        /\ last'.op = "start"
        /\ last'.req.deviceId \in DOMAIN devices
        /\ last'.req.syncType \in {"http", "bluetooth"}) =>
            /\ last'.code = 200
            /\ sync_sessions' # sync_sessions
            /\ sync_sessions'[last'.body.sessionId].status = "started"
            /\ \A s \in DOMAIN sync_sessions : sync_sessions'[s] = sync_sessions[s]]_vars

\* two sessions of the watch are in status started at once
TwoStartedSessions ==
    /\ last.op = "start"
    /\ last.code = 200
    /\ \E s, t \in DOMAIN sync_sessions :
          /\ s # t
          /\ sync_sessions[s].device_id = "w1"
          /\ sync_sessions[t].device_id = "w1"
          /\ sync_sessions[s].status = "started"
          /\ sync_sessions[t].status = "started"

(***************************************************************************)
(* Claims about the cursor (SpecCursor)                                    *)
(***************************************************************************)
\* C1: no ingestion call lowers the stored cursor of any device
CursorNeverDecreasesOnIngest ==
    [][\A d \in DOMAIN devices :
        last'.op = "postHealthData"
            => devices'[d].last_sync_timestamp >= devices[d].last_sync_timestamp]_vars

\* C2: the explicit cursor update never lowers the stored cursor of any device
CursorNeverRolledBackOnUpdate ==
    [][\A d \in DOMAIN devices :
        last'.op = "updateTimestamp"
            => devices'[d].last_sync_timestamp >= devices[d].last_sync_timestamp]_vars

(***************************************************************************)
(* Claims about one ingestion call (SpecIngestion)                         *)
(***************************************************************************)
Ingested == last.op = "postHealthData" /\ last.code = 200

ErrorIndices == {last.body.errors[k].index : k \in 1..Len(last.body.errors)}

\* the reasons reported for the record at position i (0-based index i - 1)
ErrorsAt(i) ==
    {last.body.errors[k].error :
        k \in {j \in 1..Len(last.body.errors) : last.body.errors[j].index = i - 1}}

\* the rows the last ingestion call stored
RowsOfLastCall ==
    {k \in 1..Len(health_data) :
        /\ health_data[k].device_id = last.req.deviceId
        /\ health_data[k].data_type = last.req.dataType
        /\ health_data[k].created_at = last.at}

Rejected(i) ==
    /\ (i - 1) \in ErrorIndices
    /\ \A k \in RowsOfLastCall :
           health_data[k].timestamp # last.req.records[i].timestamp.n

\* C3: inserted + errors = total in the response of every processed batch
IngestCountsAddUp ==
    Ingested => last.body.inserted + Len(last.body.errors) = last.body.total

\* C8: a record older than now - maxRecordAge is reported in errors and not
\* inserted, whatever its value and the data type
TooOldRejected ==
    Ingested =>
        \A i \in 1..Len(last.req.records) :
            LET t == last.req.records[i].timestamp
            IN (t.kind = "number" /\ t.n < last.at - MaxRecordAge) => Rejected(i)

TooOldWitness ==
    /\ Ingested
    /\ \E i \in 1..Len(last.req.records) :
           LET r == last.req.records[i]
           IN /\ r.timestamp.kind = "number"
              /\ r.timestamp.n > 0
              /\ r.timestamp.n < last.at - MaxRecordAge
              /\ validateValueByType(last.req.dataType, r.value, r.metadata).isValid
              /\ Rejected(i)

\* C9: a record more than 5 minutes ahead of the server clock is reported in
\* errors and not inserted; one at most 5 minutes ahead is not rejected as
\* being in the future
FutureRejected ==
    Ingested =>
        \A i \in 1..Len(last.req.records) :
            LET t == last.req.records[i].timestamp
            IN /\ (t.kind = "number" /\ t.n > last.at + GracePeriod) => Rejected(i)
               /\ (t.kind = "number" /\ t.n <= last.at + GracePeriod)
                     => "Timestamp cannot be in the future" \notin ErrorsAt(i)

FutureWitness ==
    /\ Ingested
    /\ \E i, j \in 1..Len(last.req.records) :
           /\ last.req.records[i].timestamp = JsNum(last.at + GracePeriod + 1)
           /\ Rejected(i)
           /\ "Timestamp cannot be in the future" \in ErrorsAt(i)
           /\ last.req.records[j].timestamp = JsNum(last.at + GracePeriod)
           /\ (j - 1) \notin ErrorIndices
           /\ \E k \in RowsOfLastCall : health_data[k].timestamp = last.at + GracePeriod

\* the timestamp of a record lies within [clock - maxAge, clock + grace]
FreshAt(record, clock) ==
    /\ record.timestamp.kind = "number"
    /\ clock - 129600 <= record.timestamp.n
    /\ record.timestamp.n <= clock + 5

HeartRateInRange(record) ==
    record.value.kind = "number" /\ 30 <= record.value.n /\ record.value.n <= 220

\* C12: a heart-rate record with a fresh timestamp passes validation exactly
\* when its value is within 30..220, both ends included
HeartRateAcceptedIffInRange ==
    (Ingested /\ last.req.dataType = "heart_rate") =>
        \A i \in 1..Len(last.req.records) :
            FreshAt(last.req.records[i], last.at)
                => ((i - 1) \notin ErrorIndices <=> HeartRateInRange(last.req.records[i]))

HeartRateRangeWitness ==
    /\ Ingested
    /\ last.req.dataType = "heart_rate"
    /\ Len(last.req.records) = 1
    /\ FreshAt(last.req.records[1], last.at)
    /\ last.req.records[1].value = JsNum(220)
    /\ last.body.errors = <<>>
    /\ last.body.inserted = 1
    /\ \E k \in RowsOfLastCall : health_data[k].value = 220

(***************************************************************************)
(* Claims about partial success (SpecPartial)                              *)
(***************************************************************************)
\* the positions of the last batch whose heart rate is out of range
OutOfRangePositions ==
    {i \in 1..Len(last.req.records) : ~HeartRateInRange(last.req.records[i])}

\* the positions of the last batch whose heart rate is in range, in batch order
InRangePositions ==
    SelectSeq([i \in 1..Len(last.req.records) |-> i],
              LAMBDA i : HeartRateInRange(last.req.records[i]))

\* C13: of a heart-rate batch of fresh records, the records out of range are
\* reported in errors under their index in the batch and not inserted, all
\* the others are inserted, and the cursor of the device becomes the largest
\* accepted timestamp
PartialSuccess ==
    (/\ Ingested
     /\ last.req.dataType = "heart_rate"
     /\ \A i \in 1..Len(last.req.records) : FreshAt(last.req.records[i], last.at)) =>
        /\ Len(last.body.errors) = Cardinality(OutOfRangePositions)
        /\ ErrorIndices = {i - 1 : i \in OutOfRangePositions}
        /\ last.body.inserted = Len(InRangePositions)
        /\ Len(health_data) = Len(InRangePositions)
        /\ \A k \in 1..Len(health_data) :
               /\ health_data[k].device_id = last.req.deviceId
               /\ health_data[k].timestamp = last.req.records[InRangePositions[k]].timestamp.n
               /\ health_data[k].value = last.req.records[InRangePositions[k]].value.n
        /\ InRangePositions # <<>> =>
               /\ \E k \in 1..Len(InRangePositions) :
                      devices[last.req.deviceId].last_sync_timestamp
                          = last.req.records[InRangePositions[k]].timestamp.n
               /\ \A k \in 1..Len(InRangePositions) :
                      devices[last.req.deviceId].last_sync_timestamp
                          >= last.req.records[InRangePositions[k]].timestamp.n

\* the scenario: a registered watch sends [72, 75, 1000]
PartialSuccessWitness ==
    /\ Ingested
    /\ last.req.records = <<Rec(last.at - 1, 72), Rec(last.at, 75), Rec(last.at, 1000)>>
    /\ devices[last.req.deviceId].metadata = "{}"
    /\ last.body.inserted = 2
    /\ Len(last.body.errors) = 1
    /\ last.body.errors[1].index = 2
    /\ Len(health_data) = 2
    /\ devices[last.req.deviceId].last_sync_timestamp = last.at

(***************************************************************************)
(* Claims about the record store and the sync read (SpecStore)             *)
(***************************************************************************)
\* C7: every stored record was, when it was inserted, no older than maxAge
\* and no more than the grace period ahead of the server clock
StoredRecordsWereFresh ==
    \A k \in 1..Len(health_data) :
        /\ health_data[k].created_at - MaxRecordAge <= health_data[k].timestamp
        /\ health_data[k].timestamp <= health_data[k].created_at + GracePeriod

SyncAnswered == last.op = "syncData" /\ last.code = 200

\* C10: the data of a sync read for device D holds no record of D
OwnRecordsExcluded ==
    SyncAnswered =>
        \A k \in 1..Len(last.body.data) : last.body.data[k].device_id # last.req.deviceId

OwnRecordsWitness ==
    /\ SyncAnswered
    /\ Len(last.body.data) > 0
    /\ \E k \in 1..Len(health_data) : health_data[k].device_id = last.req.deviceId

\* the stored rows of devices other than the one that made the last request
RowsOfOthers == {k \in 1..Len(health_data) : health_data[k].device_id # last.req.deviceId}

\* the j-th returned record is the k-th stored row
Returns(j, k) ==
    /\ last.body.data[j].device_id = health_data[k].device_id
    /\ last.body.data[j].data_type = health_data[k].data_type
    /\ last.body.data[j].timestamp = health_data[k].timestamp
    /\ last.body.data[j].value = health_data[k].value

SinceZero ==
    /\ SyncAnswered
    /\ last.req.q.since = JsNum(0)
    /\ last.req.q.until = JsUndef
    /\ last.req.q.dataType = ""
    /\ last.req.q.offset = JsNum(0)

\* C14: a sync read with since=0 returns the stored records of all other
\* devices, as many as the page holds, none of the reader's own, and in order
\* of non-increasing timestamp
SinceZeroReturnsAllOthers ==
    SinceZero =>
        /\ \A j \in 1..Len(last.body.data) : \E k \in RowsOfOthers : Returns(j, k)
        /\ Len(last.body.data) =
               (IF Cardinality(RowsOfOthers) <= last.req.q.limit.n
                THEN Cardinality(RowsOfOthers) ELSE last.req.q.limit.n)
        /\ Cardinality(RowsOfOthers) <= last.req.q.limit.n
               => \A k \in RowsOfOthers : \E j \in 1..Len(last.body.data) : Returns(j, k)
        /\ \A j \in 1..(Len(last.body.data) - 1) :
               last.body.data[j].timestamp >= last.body.data[j + 1].timestamp

\* the phone reads two records of the watch that were stored oldest first
SinceZeroWitness ==
    /\ SinceZero
    /\ last.req.deviceId = "p1"
    /\ Len(last.body.data) = 2
    /\ last.body.data[1].timestamp > last.body.data[2].timestamp
    /\ health_data[1].timestamp < health_data[2].timestamp
    /\ \A k \in 1..2 : last.body.data[k].device_id = "w1"

\* C16: a sync read, whatever its parameters and its outcome, leaves the
\* device rows (the cursor of the reader among them), the record store and
\* the session table as they were
ReadChangesNothing ==
    [][(last'.op = "syncData" /\ last' # last)
          => /\ devices' = devices
             /\ health_data' = health_data
             /\ sync_sessions' = sync_sessions]_vars

\* a read whose newest returned record is newer than the cursor of the reader
ReadChangesNothingWitness ==
    /\ SyncAnswered
    /\ last.req.q.since = JsUndef
    /\ Len(last.body.data) > 0
    /\ devices[last.req.deviceId].last_sync_timestamp > 0
    /\ devices[last.req.deviceId].last_sync_timestamp < last.body.data[1].timestamp

(***************************************************************************)
(* Claims about the exchange (SpecExchange)                                *)
(***************************************************************************)
\* the k-th stored row is a record of A, and B has a cursor to read with
StoredByA(k) ==
    /\ k <= Len(health_data)
    /\ health_data[k].device_id = DeviceA
    /\ DeviceB \in DOMAIN devices

\* B's last request was a sync read that returned the k-th stored row
ReturnedToB(k) ==
    /\ k <= Len(health_data)
    /\ SyncAnswered
    /\ last.req.deviceId = DeviceB
    /\ \E j \in 1..Len(last.body.data) : last.body.data[j] = Selected(health_data[k])

\* C4: every record A ingested is returned by a sync read of B made after the
\* record was stored
NoRecordLost == \A k \in 1..MaxRows : StoredByA(k) ~> ReturnedToB(k)

(***************************************************************************)
(* Claims about the watermark of the sync read (SpecWatermark)             *)
(***************************************************************************)
\* the watermark of the last read: the since parameter when the request has
\* one, the stored cursor of the requesting device otherwise
Watermark ==
    IF last.req.q.since.kind = "number" THEN last.req.q.since.n
    ELSE devices[last.req.deviceId].last_sync_timestamp

\* the stored rows that match the filter of the last read
MatchingRows ==
    {k \in 1..Len(health_data) :
        /\ health_data[k].device_id # last.req.deviceId
        /\ health_data[k].timestamp > Watermark
        /\ (last.req.q.until.kind = "number"
               => health_data[k].timestamp <= last.req.q.until.n)
        /\ (last.req.q.dataType # "" => health_data[k].data_type = last.req.q.dataType)}

\* C11: pagination.total of a sync read is the number of stored records of
\* other devices above the watermark that pass until and dataType, whatever
\* limit and offset are
TotalCountsMatchingRows ==
    SyncAnswered => last.body.pagination.total = Cardinality(MatchingRows)

\* C15: every record a sync read returns has a timestamp strictly greater than
\* the watermark (the since parameter, or the stored cursor when it is omitted)
OnlyAboveWatermark ==
    SyncAnswered =>
        \A k \in 1..Len(last.body.data) : last.body.data[k].timestamp > Watermark

(***************************************************************************)
(* Claims about the device registry (SpecRegistry)                         *)
(***************************************************************************)
\* C17: after an ingestion, a sync read or a registration that names a device
\* (and is not refused as malformed), the registry holds a row for that device
TouchCreatesDevice ==
    (last.op \in {"postHealthData", "syncData", "register"} /\ last.code # 400)
        => last.req.deviceId \in DOMAIN devices

\* C18: an ingestion or an iOS upload that finds the device registered leaves
\* its name, type, metadata and active flag as they were
ImplicitTouchKeepsIdentity ==
    [][(last' # last /\ last'.op \in {"postHealthData", "postIosData"})
          => \A d \in DOMAIN devices :
                 /\ devices'[d].name = devices[d].name
                 /\ devices'[d].type = devices[d].type
                 /\ devices'[d].metadata = devices[d].metadata
                 /\ devices'[d].is_active = devices[d].is_active]_vars

\* C19: a successful register call for an existing device, active or not,
\* leaves it with the supplied name, type and metadata and active, and leaves
\* its cursor, the other devices and the record store as they were
RegisterOverwritesAndActivates ==
    [][(last' # last /\ last'.op = "register" /\ last'.code = 200)
          => LET d == last'.req.deviceId
             IN /\ d \in DOMAIN devices
                /\ devices'[d].name = last'.req.deviceName
                /\ devices'[d].type = last'.req.deviceType
                /\ devices'[d].metadata = last'.req.metadata
                /\ devices'[d].is_active
                /\ devices'[d].last_sync_timestamp = devices[d].last_sync_timestamp
                /\ \A e \in DOMAIN devices \ {d} : devices'[e] = devices[e]
                /\ health_data' = health_data]_vars

\* the watch, which has ingested records under another name, is registered
RegisterOverwritesWitness ==
    /\ last.op = "register"
    /\ last.code = 200
    /\ last.req.deviceId = "w1"
    /\ devices["w1"].name = "Renamed"
    /\ devices["w1"].metadata = "m1"
    /\ devices["w1"].is_active
    /\ devices["w1"].last_sync_timestamp > 0
    /\ last.body.lastSyncTimestamp = devices["w1"].last_sync_timestamp
    /\ \E k \in 1..Len(health_data) : health_data[k].device_id = "w1"

\* C20: an ingestion request refused at request level (a field missing,
\* records not an array, the data type unsupported, the batch too large)
\* creates and touches no device row, inserts no record and moves no cursor
RejectedIngestPersistsNothing ==
    [][(last' # last /\ last'.op = "postHealthData" /\ last'.code = 400)
          => /\ devices' = devices
             /\ health_data' = health_data
             /\ sync_sessions' = sync_sessions]_vars

\* a batch of maxBatchSize + 1 records for a device the registry does not know
RejectedIngestWitness ==
    /\ last.op = "postHealthData"
    /\ last.code = 400
    /\ Len(last.req.records) = 1001
    /\ last.req.deviceId \notin DOMAIN devices
    /\ health_data = <<>>

(***************************************************************************)
(* C21: when no record of a well-formed batch passes validation (the batch *)
(* is empty or every record is rejected), the ingestion answers 200 with   *)
(* nothing inserted, and the device's cursor is the server time of the     *)
(* call.                                                                   *)
(***************************************************************************)
WellFormedIngest ==
    /\ last.op = "postHealthData"
    /\ last.req.deviceId # ""
    /\ last.req.dataType \in SupportedTypes
    /\ last.req.isArray
    /\ Len(last.req.records) <= MaxBatchSize

NothingAccepted ==
    \A i \in 1..Len(last.req.records) :
        ~validateHealthData(last.req.dataType, last.req.records[i], last.at).isValid

NothingAcceptedCursorIsNow ==
    (WellFormedIngest /\ NothingAccepted) =>
        /\ last.code = 200
        /\ last.body.inserted = 0
        /\ Len(last.body.errors) = last.body.total
        /\ last.req.deviceId \in DOMAIN devices
        /\ devices[last.req.deviceId].last_sync_timestamp = last.at

\* a full batch whose records were all rejected; the clock has since moved on
NothingAcceptedWitness ==
    /\ WellFormedIngest
    /\ NothingAccepted
    /\ Len(last.req.records) = MaxBatch
    /\ last.body.total = MaxBatch
    /\ devices[last.req.deviceId].last_sync_timestamp = last.at
    /\ now > last.at

(***************************************************************************)
(* Claims about the lifetime of a stored record (SpecPurge)                *)
(***************************************************************************)
\* a is b with some of its elements left out
RECURSIVE IsSubSeq(_, _)
IsSubSeq(a, b) ==
    IF a = <<>> THEN TRUE
    ELSE IF b = <<>> THEN FALSE
    ELSE IF Head(a) = Head(b) THEN IsSubSeq(Tail(a), Tail(b))
    ELSE IsSubSeq(a, Tail(b))

DeleteStep == last' # last /\ last'.op = "deleteHealthData"

\* C23: a stored health record is never modified and only the bulk delete
\* removes one: every other operation leaves the stored rows as they are,
\* in place, and may only add rows after them; the bulk delete leaves the
\* rows it keeps as they are; in production it keeps them all and answers
\* with an error.
RecordsImmutableUntilPurged ==
    [][/\ ~DeleteStep =>
            /\ Len(health_data') >= Len(health_data)
            /\ SubSeq(health_data', 1, Len(health_data)) = health_data
       /\ DeleteStep => IsSubSeq(health_data', health_data)
       /\ (DeleteStep /\ last'.req.environment = "production") =>
            /\ last'.code >= 400
            /\ health_data' = health_data]_vars

\* production refused to delete the rows of the watch, which are still stored
PurgeRefusedInProduction ==
    /\ last.op = "deleteHealthData"
    /\ last.req.environment = "production"
    /\ last.req.deviceId = "w1"
    /\ last.code = 403
    /\ \E k \in 1..Len(health_data) : health_data[k].device_id = "w1"
    /\ Len(health_data) = MaxRows

\* the filter of the last bulk delete holds of the row
Purged(row) ==
    /\ (last.req.deviceId # "" => row.device_id = last.req.deviceId)
    /\ (last.req.dataType # "" => row.data_type = last.req.dataType)
    /\ (last.req.before.kind = "number" => row.timestamp < last.req.before.n)

\* C24 as claimed: in every environment other than development a bulk
\* delete is rejected with an error and the record store is unchanged.
DeleteRejectedOutsideDevelopment ==
    [][(DeleteStep /\ last'.req.environment # "development") =>
            /\ last'.code >= 400
            /\ health_data' = health_data]_vars

\* C24, amended: in production a bulk delete is rejected with an error and
\* the record store is unchanged; in every other environment (development,
\* test, staging) a bulk delete that names a filter and no unparsable before
\* answers 200 and removes exactly the rows its filter holds of.
DeleteRejectedOnlyInProduction ==
    [][DeleteStep =>
          IF last'.req.environment = "production"
          THEN last'.code = 403 /\ health_data' = health_data
          ELSE IF \/ last'.req.before.kind = "string"
                  \/ /\ last'.req.deviceId = ""
                     /\ last'.req.dataType = ""
                     /\ last'.req.before.kind = "undefined"
          THEN last'.code = 400 /\ health_data' = health_data
          ELSE /\ last'.code = 200
               /\ health_data' = SelectSeq(health_data, LAMBDA row : ~Purged(row)')
               /\ last'.body.deleted_records = Len(health_data) - Len(health_data')]_vars

\* a process started with NODE_ENV=test deleted a stored row
DeletedInTestEnvironment ==
    /\ last.op = "deleteHealthData"
    /\ last.req.environment = "test"
    /\ last.code = 200
    /\ last.body.deleted_records > 0
    /\ Len(health_data) < MaxRows

(***************************************************************************)
(* Claims about deactivation (SpecDeactivate)                              *)
(***************************************************************************)
Inactive(deviceId) == deviceId \in DOMAIN devices /\ ~devices[deviceId].is_active

RowsOf(deviceId) == {k \in 1..Len(health_data) : health_data[k].device_id = deviceId}

SessionsOf(deviceId) == {k \in 1..Len(sync_sessions) : sync_sessions[k].device_id = deviceId}

\* the last answer is a read from the beginning that holds every stored row
\* of the device
ReadReturnsRowsOf(deviceId) ==
    /\ Cardinality({j \in 1..Len(last.body.data) : last.body.data[j].device_id = deviceId})
          = Cardinality(RowsOf(deviceId))
    /\ \A k \in RowsOf(deviceId) : \E j \in 1..Len(last.body.data) :
          /\ last.body.data[j].device_id = deviceId
          /\ last.body.data[j].timestamp = health_data[k].timestamp
          /\ last.body.data[j].value = health_data[k].value

\* the last answer is the status of the device and reports its stored rows
\* and one of its sessions
StatusReportsDevice(deviceId) ==
    /\ last.body.device.isActive = devices[deviceId].is_active
    /\ RowsOf(deviceId) # {} =>
          \E stat \in last.body.healthDataStats :
              stat.count = Cardinality(RowsOf(deviceId))
    /\ SessionsOf(deviceId) # {} =>
          \E k \in SessionsOf(deviceId) : last.body.latestSync = <<sync_sessions[k]>>

\* C22: unregister only clears the active flag of the device: the registry
\* row stays, every health record and session stays stored; no operation
\* removes a device row; a read by another device and the status of the
\* device still return the records and sessions of a deactivated device.
UnregisterOnlyDeactivates ==
    [][/\ DOMAIN devices \subseteq DOMAIN devices'
       /\ (last' # last /\ last'.op = "unregister" /\ last'.code = 200) =>
            /\ devices' = [devices EXCEPT ![last'.req.deviceId].is_active = FALSE]
            /\ health_data' = health_data
            /\ sync_sessions' = sync_sessions
       /\ (last' # last /\ last'.op = "syncData" /\ last'.code = 200) =>
            \A d \in DOMAIN devices' \ {last'.req.deviceId} : ReadReturnsRowsOf(d)'
       /\ (last' # last /\ last'.op = "status") =>
            \A d \in DOMAIN devices' :
                d = last'.req.deviceId => last'.code = 200 /\ StatusReportsDevice(d)']_vars

\* the phone has read the record of the watch, which is deactivated and has
\* a session
DeactivatedStillRead ==
    /\ Inactive("w1")
    /\ last.op = "syncData"
    /\ last.code = 200
    /\ Len(last.body.data) > 0
    /\ RowsOf("w1") # {}
    /\ SessionsOf("w1") # {}

(***************************************************************************)
(* Claims about resubmitted batches (SpecDuplicate)                        *)
(***************************************************************************)
\* the number of stored rows of the last request's device and data type
\* that carry the timestamp
StoredWith(timestamp) ==
    Cardinality({k \in 1..Len(health_data) :
                    /\ health_data[k].device_id = last.req.deviceId
                    /\ health_data[k].data_type = last.req.dataType
                    /\ health_data[k].timestamp = timestamp})

\* the number of records of the last request that carry the timestamp
SentWith(timestamp) ==
    Cardinality({i \in 1..Len(last.req.records) :
                    last.req.records[i].timestamp.n = timestamp})

\* the last request was an accepted batch without a rejected record, and the
\* store holds its rows and no other row with one of their keys
FirstSubmission ==
    /\ Ingested
    /\ last.body.errors = <<>>
    /\ \A i \in 1..Len(last.req.records) :
          StoredWith(last.req.records[i].timestamp.n)
             = SentWith(last.req.records[i].timestamp.n)

\* the step is the answer to the same batch, submitted again
Resubmission ==
    /\ last'.op = "postHealthData"
    /\ last'.code = 200
    /\ last'.req = last.req
    /\ last'.body.errors = <<>>
    /\ (last' # last \/ health_data' # health_data)

DeviceOps == {"start", "syncData", "updateTimestamp", "status", "unregister"}

\* the request of the answer passes the checks made before the device lookup
PassesParameterChecks(answer) ==
    /\ answer.op = "start" => answer.req.syncType \in {"http", "bluetooth"}
    /\ answer.op = "syncData" => validateSyncParams(answer.req.q).isValid
    /\ answer.op = "updateTimestamp" =>
          answer.req.timestamp.kind = "number" /\ answer.req.timestamp.n # 0

\* C26: session start, sync read, cursor update, status and unregister for
\* a device the registry does not hold, and complete for a session the
\* session table does not hold, answer 404 when the request is otherwise
\* well formed (400 when it is not), and leave registry, session table and
\* record store as they were; start adds no session.
UnknownNameNotFound ==
    [][last' # last =>
         /\ (last'.op \in DeviceOps /\ last'.req.deviceId \notin DOMAIN devices) =>
               /\ last'.code = IF PassesParameterChecks(last') THEN 404 ELSE 400
               /\ UNCHANGED <<devices, health_data, sync_sessions, completing>>
         /\ (last'.op = "complete" /\ last'.req.sessionId \notin DOMAIN sync_sessions) =>
               /\ last'.code = IF last'.req.sessionId # 0 THEN 404 ELSE 400
               /\ UNCHANGED <<devices, health_data, sync_sessions, completing>>]_vars

\* start for the unknown phone was refused; the watch has its session
UnknownStartWitness ==
    /\ last.op = "start"
    /\ last.code = 404
    /\ last.req.deviceId = "p1"
    /\ "p1" \notin DOMAIN devices
    /\ Len(sync_sessions) = 1
    /\ sync_sessions[1].device_id = "w1"
    /\ Len(health_data) > 0

(***************************************************************************)
(* Claims about the reader's watermark (SpecReader)                        *)
(***************************************************************************)
\* the rowids of the stored records that the read answered in last returned:
\* the rows its WHERE clause holds of, in its order, cut to its page
DeliveredRowids ==
    LET tagged == [k \in 1..Len(health_data) |->
                      [rowid |-> k, timestamp |-> health_data[k].timestamp]]
        matching == SelectSeq(tagged,
                        LAMBDA r : SyncConditions(health_data[r.rowid], last.req.deviceId,
                                                  last.body.lastSyncTimestamp, last.req.q))
        page == LimitOffset(OrderByTimestampDesc(matching), last.body.pagination.limit,
                            last.body.pagination.offset)
    IN {page[j].rowid : j \in 1..Len(page)}

\* C30: a reader that passes as since the largest timestamp it has received
\* is not delivered a stored record it was delivered by its read before.
NeverRedelivered ==
    [][(/\ ReaderHasReceived
        /\ last' # last
        /\ last'.op = "syncData"
        /\ last'.code = 200
        /\ last'.req.deviceId = Reader
        /\ last'.req.q.since = JsNum(MaxReceived)) =>
            DeliveredRowids' \cap DeliveredRowids = {}]_vars

(***************************************************************************)
(* Claims about the range of steps (SpecIngestion)                         *)
(***************************************************************************)
StepsInRange(record) ==
    record.value.kind = "number" /\ 0 <= record.value.n /\ record.value.n <= 100000

\* C33: a steps record with a fresh timestamp passes validation exactly when
\* its value is within 0..100000, both ends included
StepsAcceptedIffInRange ==
    (Ingested /\ last.req.dataType = "steps") =>
        \A i \in 1..Len(last.req.records) :
            FreshAt(last.req.records[i], last.at)
                => ((i - 1) \notin ErrorIndices <=> StepsInRange(last.req.records[i]))

(***************************************************************************)
(* Claims about the parameters of the sync read (SpecParam)                *)
(***************************************************************************)
\* the parameter is given and is not the text of a number from 0 on
NotATimestamp(v) == v.kind = "string" \/ (v.kind = "number" /\ v.n < 0)

\* one of the parameters of the last sync read is out of its domain
OutOfDomain ==
    \/ NotATimestamp(last.req.q.since)
    \/ NotATimestamp(last.req.q.until)
    \/ last.req.q.limit.kind # "number"
    \/ last.req.q.limit.n < 1
    \/ last.req.q.limit.n > 1000
    \/ last.req.q.offset.kind # "number"
    \/ last.req.q.offset.n < 0

DeviceTypesClosed ==
    [][/\ \A d \in DOMAIN devices' : devices'[d].type \in {"wearos", "ios"}
       /\ (last' # last /\ last'.op = "register"
             /\ last'.req.deviceType \notin {"wearos", "ios"}) =>
            /\ last'.code = 400
            /\ UNCHANGED <<devices, health_data, sync_sessions>>
       /\ (last' # last /\ last'.op = "postHealthData"
             /\ last'.req.deviceId \notin DOMAIN devices
             /\ last'.req.deviceType \notin {"", "wearos", "ios"}) =>
            /\ last'.code >= 400
            /\ UNCHANGED <<devices, health_data, sync_sessions>>]_vars

\* the ingestion of an unknown phone of type tizen failed while the watch is
\* registered and has a record stored
ForeignTypeRefused ==
    /\ last.op = "postHealthData"
    /\ last.req.deviceType = "tizen"
    /\ last.req.deviceId = "p1"
    /\ Len(last.req.records) = 1
    /\ last.code = 500
    /\ "p1" \notin DOMAIN devices
    /\ "w1" \in DOMAIN devices
    /\ Len(health_data) = 1

(***************************************************************************)
(* Claims about storage failures during a batch (SpecIngestion)            *)
(***************************************************************************)
\* the positions of the answered batch that passed validation, in batch order
ValidatedPositions ==
    SelectSeq([i \in 1..Len(last.req.records) |-> i], LAMBDA i : (i - 1) \notin ErrorIndices)

\* C36: an INSERT that throws for one validated record does not stop the
\* batch: whichever INSERTs of a well-formed request throw, the call
\* answers 200 and the store gains,
\* in batch order, exactly the validated records whose own INSERT did not
\* throw, those after a failed one included.
FailedInsertSkipped ==
    [][(last' # last /\ WellFormedIngest') =>
          \A failed \in SUBSET (1..MaxBatch) :
              PostHealthData(last'.req, failed) =>
                  /\ last'.code = 200
                  /\ LET valid == ValidatedPositions'
                         done == SelectSeq([k \in 1..Len(valid) |-> k],
                                           LAMBDA k : k \notin failed)
                     IN /\ Len(health_data') = Len(health_data) + Len(done)
                        /\ \A j \in 1..Len(done) :
                              /\ health_data'[Len(health_data) + j].timestamp
                                    = last'.req.records[valid[done[j]]].timestamp.n
                              /\ health_data'[Len(health_data) + j].value
                                    = last'.req.records[valid[done[j]]].value.n]_vars

\* of two validated records the first was not stored and the second was
LaterRecordStored ==
    /\ Ingested
    /\ last.body.total = 2
    /\ last.body.errors = <<>>
    /\ last.body.inserted = 1
    /\ last.req.records[1].timestamp # last.req.records[2].timestamp
    /\ \E k \in RowsOfLastCall : health_data[k].timestamp = last.req.records[2].timestamp.n
    /\ \A k \in RowsOfLastCall : health_data[k].timestamp # last.req.records[1].timestamp.n

(***************************************************************************)
(* Claims about the reference client (SpecClient)                          *)
(***************************************************************************)
\* C31: a client that reads with since equal to the timestamp it keeps and
\* then keeps the lastSyncTimestamp of the answer is not delivered by its
\* next sync a stored record that this sync delivered.
ClientNeverRedelivered ==
    [][(/\ ClientAnswered
        /\ last' # last
        /\ last'.op = "syncData"
        /\ last'.code = 200
        /\ last'.req.deviceId = Client
        /\ last'.req.q.since = JsNum(last.body.lastSyncTimestamp)) =>
            DeliveredRowids' \cap DeliveredRowids = {}]_vars

(***************************************************************************)
(* Claims about the health goals (SpecGoals)                               *)
(***************************************************************************)
\* the goals a read of the device answers now
StoredGoals(d) == getHealthGoals(device_settings, d)

GoalRowCount(d) == Cardinality(GoalRows(device_settings, d))

\* C35: a successful save for a device leaves exactly one health_goals row for
\* it, holding the saved goals; any other step leaves the device's rows and
\* the goals a read answers as they were; a read answers the stored goals of
\* the device, the default goals when it has no row, and creates no row.
GoalsUpserted ==
    [][\A d \in DeviceIds :
        /\ IF last' # last /\ last'.op = "saveGoals" /\ last'.code = 200
              /\ last'.req.deviceId = d
           THEN GoalRowCount(d)' = 1 /\ StoredGoals(d)' = last'.req.goals
           ELSE GoalRowCount(d)' = GoalRowCount(d) /\ StoredGoals(d)' = StoredGoals(d)
        /\ GoalRowCount(d)' <= 1
        /\ (last' # last /\ last'.op = "getGoals" /\ last'.req.deviceId = d) =>
              /\ last'.code = 200
              /\ last'.body.goals = StoredGoals(d)
              /\ device_settings' = device_settings
              /\ GoalRowCount(d) = 0 => last'.body.goals = DefaultGoals]_vars

\* the watch's goals were saved, saved again a minute later with another
\* value, and read
GoalsReadAfterResave ==
    /\ last.op = "getGoals"
    /\ last.req.deviceId = "w1"
    /\ last.body.goals = JsObject(12000)
    /\ GoalRowCount("w1") = 1
    /\ device_settings[1].updated_at = MaxNow
    /\ GoalRowCount("p1") = 0

(***************************************************************************)
(* Claims about paging (SpecPager)                                         *)
(***************************************************************************)
\* the records a read of the pager delivers from rows, over all its pages
PagerMatching(rows) ==
    LET matching == SelectSeq(rows,
                        LAMBDA row : SyncConditions(row, Reader, ParseNum(PagerSince),
                            Query(PagerSince, JsUndef, "", JsNum(PagerLimit), JsNum(0))))
    IN  [k \in DOMAIN matching |-> Selected(matching[k])]

CountOf(seq, x) == Cardinality({i \in DOMAIN seq : seq[i] = x})

RangeOf(seq) == {seq[i] : i \in DOMAIN seq}

\* received holds every record as often as it matched both when the first
\* page was read (before) and when the last page was read (after), and no
\* record more often than it matched at either time
ReceivedOnce(received, before, after) ==
    \A x \in RangeOf(received) \cup RangeOf(before) \cup RangeOf(after) :
        /\ CountOf(received, x) >= Min(CountOf(before, x), CountOf(after, x))
        /\ CountOf(received, x) <= MaxOf({CountOf(before, x), CountOf(after, x)})

\* a sync read answers hasMore exactly when offset + returned < total, and
\* exactly when more rows match than the pages up to this one hold
HasMoreStep ==
    (last' # last /\ last'.op = "syncData" /\ last'.code = 200) =>
        LET pagination == last'.body.pagination
            upTo == pagination.offset + Len(last'.body.data)
        IN  /\ pagination.hasMore <=> upTo < pagination.total
            /\ pagination.hasMore <=> upTo < Len(PagerMatching(health_data'))

PagingEnds == pager'.done /\ ~pager.done

\* C39 as stated: hasMore is exact, and paging at offsets 0, limit, 2*limit,
\* ... until hasMore is false has gathered every matching record exactly
\* once, whatever was written between the pages.
PagedExactlyOnce ==
    [][/\ HasMoreStep
       /\ PagingEnds => ReceivedOnce(pager'.received, PagerMatching(pager'.snapshot),
                                     PagerMatching(health_data'))]_vars

\* C39, amended: hasMore is exact, and paging until hasMore is false has
\* gathered every matching record exactly once when every page was read from
\* the same stored rows.
PagedExactlyOnceWhenStable ==
    [][/\ HasMoreStep
       /\ (PagingEnds /\ pager'.stable) =>
              /\ pager'.snapshot = health_data'
              /\ ReceivedOnce(pager'.received, PagerMatching(health_data'),
                              PagerMatching(health_data'))]_vars

\* two pages were gathered from the same rows
PagedTwoPages ==
    /\ pager.done
    /\ pager.stable
    /\ pager.offset > PagerLimit
    /\ Len(pager.received) = 2

(***************************************************************************)
(* Claims about the steps of one ingestion (SpecBatch)                     *)
(***************************************************************************)
\* the rows stored since the handler began
BatchRows(id) == SubSeq(health_data, ingestions[id].base + 1, Len(health_data))

TimestampsAndValues(seq) == [k \in DOMAIN seq |-> <<seq[k].timestamp, seq[k].value>>]

\* the validated records whose insert has been attempted
Attempted(id) == SubSeq(ingestions[id].validRecords, 1, ingestions[id].next - 1)

PersistedIsPrefix ==
    \A id \in DOMAIN ingestions :
        \E k \in 0..Len(ingestions[id].validRecords) :
            TimestampsAndValues(BatchRows(id)) =
                TimestampsAndValues(SubSeq(ingestions[id].validRecords, 1, k))

PersistedInBatchOrder ==
    \A id \in DOMAIN ingestions :
        /\ Len(BatchRows(id)) = ingestions[id].insertedCount
        /\ IsSubSeq(TimestampsAndValues(BatchRows(id)), TimestampsAndValues(Attempted(id)))
        /\ ingestions[id].insertedCount = ingestions[id].next - 1 =>
              TimestampsAndValues(BatchRows(id)) = TimestampsAndValues(Attempted(id))

\* a step that leaves a handler short of its cursor update leaves the cursor
\* of the handler's device as it was
CursorWaitsForInserts ==
    \A id \in DOMAIN ingestions' :
        (ingestions'[id].pc # "done" /\ ingestions'[id].req.deviceId \in DOMAIN devices) =>
            devices'[ingestions'[id].req.deviceId].last_sync_timestamp =
                devices[ingestions'[id].req.deviceId].last_sync_timestamp

\* C37 as stated: at every state of an ingestion the rows stored for the
\* batch are a prefix, in batch order, of the batch's validated records, and
\* the cursor is not changed before every insert has been attempted.
BatchPersistedAsPrefix ==
    [][PersistedIsPrefix' /\ CursorWaitsForInserts]_vars

\* C37, amended: at every state of an ingestion the rows stored for the batch
\* are, in batch order, the validated records attempted so far without those
\* whose insert failed, a prefix of the validated records when no insert has
\* failed, and the cursor is not changed before every insert has been attempted.
BatchPersistedInOrder ==
    [][PersistedInBatchOrder' /\ CursorWaitsForInserts]_vars

\* the first of two validated records is stored, the second not yet, and the
\* cursor still is where an earlier, empty batch left it
MidBatch ==
    /\ "h1" \in DOMAIN ingestions
    /\ ingestions["h1"].pc = "insert"
    /\ Len(ingestions["h1"].validRecords) = 2
    /\ ingestions["h1"].next = 2
    /\ Len(BatchRows("h1")) = 1
    /\ devices["w1"].last_sync_timestamp = StartNow
    /\ now > StartNow

(***************************************************************************)
(* Claims about concurrent ingestions (SpecRace)                           *)
(***************************************************************************)
\* the handler found no device row when it began
BeganUnknown(id) == id \in DOMAIN ingestions /\ ~ingestions[id].existingDevice

Answered(id) == id \in DOMAIN ingestions /\ ingestions[id].pc = "done"

\* the positions of the handler's batch that pass validation
CurrentlyValid(id) ==
    {k \in DOMAIN ingestions[id].req.records :
        validateHealthData(ingestions[id].req.dataType, ingestions[id].req.records[k],
                           now).isValid}

\* C38: when two ingestions for the same unknown device run at the same time,
\* both answer 200, the device has one row, and the valid records of both
\* batches are stored.
ConcurrentIngestionsSucceed ==
    (/\ \A id \in HandlerIds : BeganUnknown(id) /\ Answered(id)
     /\ ingestions["h1"].req.deviceId = ingestions["h2"].req.deviceId) =>
        /\ \A id \in HandlerIds : ingestions[id].code = 200
        /\ ingestions["h1"].req.deviceId \in DOMAIN devices
        /\ \A id \in HandlerIds :
              \A k \in CurrentlyValid(id) :
                  \E j \in DOMAIN health_data :
                      /\ health_data[j].device_id = ingestions[id].req.deviceId
                      /\ health_data[j].timestamp = ingestions[id].req.records[k].timestamp.n
                      /\ health_data[j].value = ingestions[id].req.records[k].value.n

(***************************************************************************)
(* Claims about the websocket heartbeat (SpecWebSocket)                    *)
(***************************************************************************)
HeartbeatStep ==
    /\ last'.op = "heartbeat"
    /\ <<wss_clients, clients, last>>' # <<wss_clients, clients, last>>

\* the heartbeat has terminated the socket in this step
TerminatedNow(ws) ==
    /\ ws \in DOMAIN wss_clients
    /\ wss_clients[ws].readyState = "open"
    /\ wss_clients'[ws].readyState = "closing"

\* C40: a socket that has seen two heartbeats with no pong in between is, at
\* the second, terminated and out of the client set; the heartbeat terminates
\* no socket that answered the last ping; and activeConnections is the size
\* of the client set after every event.
StaleSocketsEvicted ==
    [][/\ HeartbeatStep =>
            \A ws \in DOMAIN wss_clients :
                /\ wss_clients[ws].missed >= 1 =>
                      /\ wss_clients'[ws].readyState = "closing"
                      /\ ws \notin clients'
                /\ wss_clients[ws].missed = 0 =>
                      /\ ~TerminatedNow(ws)
                      /\ ws \in clients' <=> ws \in clients
       /\ activeConnections' = Cardinality(clients')]_vars

\* one socket was evicted by the heartbeat while the other, which answered,
\* stays in the client set
OneEvictedOneKept ==
    /\ last.op = "heartbeat"
    /\ DOMAIN wss_clients = {"s1", "s2"}
    /\ wss_clients["s1"].readyState = "closing"
    /\ wss_clients["s1"].missed = 2
    /\ wss_clients["s2"].readyState = "open"
    /\ wss_clients["s2"].missed = 1
    /\ clients = {"s2"}
    /\ activeConnections = 1

====
